---- MODULE Spec2Model ----
(***************************************************************************)
(* Bounded-buffer producer/consumer synchronisation.                       *)
(*                                                                         *)
(*   Local engine     : SharedBuffer (queue + three semaphores), called by *)
(*                      concurrent threads through insert / remove.        *)
(*   Networked engine : SharedBufferServer, one handler thread per         *)
(*                      accepted connection, all serialised by self.lock.  *)
(***************************************************************************)
EXTENDS Integers, Sequences, FiniteSets, TLC

\* ------------------------------------------------------------------ bounds
\* Capacity handed to SharedBuffer(size) / SharedBufferServer(buffer_size).
Cap == 2
\* Number of threads calling insert / remove on the SharedBuffer.
NThreads == 2
\* Total number of insert / remove calls started in one behaviour.
MaxCalls == 4
\* The same, in the behaviours checked for termination of the calls.
LiveCalls == 3
\* Number of connections the server accepts in one behaviour.
MaxConns == 3
\* Connections accepted, and the server's capacity, in the behaviours checked
\* for every handler finishing.
LiveConns == 2
LiveCap == 1
\* Remote clients: length of the items list / max_items, and max_retries.
MaxItems == 2
MaxRetries == 2
\* CONFIG['MAX_STUDENTS'] (10 in the program), scaled down.
MAX_STUDENTS == 2

Threads == 1..NThreads
Conns == 1..MaxConns

\* --------------------------------------------------------------- variables
VARIABLES
  \* SharedBuffer fields
  buffer,          \* self.buffer: the items held by the queue.Queue, oldest first
  maxsize,         \* self.buffer.maxsize
  mutex,           \* self.mutex._value
  empty,           \* self.empty._value
  full,            \* self.full._value
  produced_count,  \* self.produced_count
  consumed_count,  \* self.consumed_count
  cnt_lock,        \* self._lock: 0 when free, else the thread that holds it
  stop_event,      \* self._stop_event.is_set()
  \* threads inside insert / remove
  pc,              \* pc[t]: the statement thread t is at
  arg,             \* arg[t]: the item parameter / the local `item`
  ret,             \* ret[t]: what the last finished call of t returned
  \* history
  eff,             \* eff[t]: net change the current/last call of t made to the buffer state
  inserted,        \* items in the order buffer.put ran
  removed,         \* items in the order buffer.get ran
  ncalls,          \* calls started so far
  sawFull,         \* sawFull[t]: the buffer held maxsize items when t's insert was called
  rmSince,         \* rmSince[t]: a remove call completed after t's current call began
  \* SharedBufferServer fields and handler threads
  srv_buffer,      \* self.buffer of the server, oldest first
  srv_maxsize,     \* self.buffer.maxsize of the server
  lock,            \* self.lock: 0 when free, else the connection whose handler holds it
  hpc,             \* hpc[c]: the statement the handler of connection c is at
  request,         \* request[c]: what the client sent on connection c
  response,        \* response[c]: the handler's local `response`
  reply,           \* reply[c]: what was sent back on connection c
  closed,          \* closed[c]: client_socket.close() has run
  seen,            \* seen[c]: the server buffer when c's handler took the lock
  enq,             \* items in the order the server enqueued them
  deq,             \* items in the order the server dequeued them
  nsent,           \* nsent[c]: how many times client_socket.send returned on c
  raised,          \* raised[c]: where handle_client's except caught an exception
  \* remote clients (producer_client.py, consumer_client.py)
  prod,            \* Producer.continuous_production: its locals
  cons,            \* Consumer.continuous_consumption: its locals
  \* local worker threads (Producer.run / Consumer.run)
  wrk              \* wrk[t]: the worker thread t, its loop position and locals

bufVars == <<buffer, maxsize, mutex, empty, full, produced_count, consumed_count, cnt_lock,
            stop_event>>
thrVars == <<pc, arg, ret>>
histVars == <<eff, inserted, removed, ncalls, sawFull, rmSince>>
localVars == <<bufVars, thrVars, histVars>>
netVars == <<srv_buffer, srv_maxsize, lock, hpc, request, response, reply, closed,
             seen, enq, deq, nsent, raised>>
cliVars == <<prod, cons>>
wrkVars == <<wrk>>
\* Everything outside the SharedBuffer and the calls on it.
restVars == <<netVars, cliVars, wrkVars>>
vars == <<localVars, netVars, cliVars, wrkVars>>

\* ------------------------------------------------------------ queue.Queue
\* Queue.full(): 0 < maxsize <= qsize()
QFull(q, m) == 0 < m /\ m <= Len(q)
\* Queue.empty(): not qsize()
QEmpty(q) == Len(q) = 0
\* Queue.qsize()
QSize(q) == Len(q)

\* SharedBuffer snapshot reads
get_size == QSize(buffer)
is_full == QFull(buffer, maxsize)
is_empty == QEmpty(buffer)

\* ------------------------------------------------------------ return values
NoItem == 0
\* The payload of the next insert call.  insert and remove never look inside an
\* item, so every call is given a token of its own: a run with repeated items
\* is a relabelling of one of these, and distinct tokens show any reordering.
NewItems == {ncalls + 1}
\* kind: what was returned; val: the item remove returned; gate: the acquire
\* whose timeout ended the call ("slot": empty/full, "mutex"), as logged.
RetNone == [kind |-> "none", val |-> NoItem, gate |-> ""]          \* nothing returned yet
RetTrue == [kind |-> "True", val |-> NoItem, gate |-> ""]          \* insert returned True
RetFalse(g) == [kind |-> "False", val |-> NoItem, gate |-> g]      \* insert returned False
RetNoneItem(g) == [kind |-> "None", val |-> NoItem, gate |-> g]    \* remove returned None
RetItem(i) == [kind |-> "item", val |-> i, gate |-> ""]            \* remove returned item i

ZeroEff == [e |-> 0, f |-> 0, m |-> 0, p |-> 0, c |-> 0, b |-> 0]

\* The step just taken is thread t's: add what it changed to eff[t].
Track(t) ==
  eff' = [eff EXCEPT ![t] =
            [e |-> @.e + (empty' - empty),
             f |-> @.f + (full' - full),
             m |-> @.m + (mutex' - mutex),
             p |-> @.p + (produced_count' - produced_count),
             c |-> @.c + (consumed_count' - consumed_count),
             b |-> @.b + (IF buffer' = buffer THEN 0 ELSE 1)]]

\* ------------------------------------------------------------------- Init
\* SharedBuffer.__init__(size)
SharedBufferInit_SizePlusOne(size) ==
  /\ buffer = <<>>
  /\ maxsize = size + 1
  /\ mutex = 1
  /\ empty = size + 1
  /\ full = 0
  /\ produced_count = 0
  /\ consumed_count = 0
  /\ cnt_lock = 0
  /\ stop_event = FALSE

SharedBufferInit(size) ==
  /\ buffer = <<>>
  /\ maxsize = size
  /\ mutex = 1
  /\ empty = size
  /\ full = 0
  /\ produced_count = 0
  /\ consumed_count = 0
  /\ cnt_lock = 0
  /\ stop_event = FALSE

\* SharedBufferServer.__init__(buffer_size)
SharedBufferServerInit(buffer_size) ==
  /\ srv_buffer = <<>>
  /\ srv_maxsize = buffer_size
  /\ lock = 0

\* What a client sends on a connection.  A producer's item is a token of its
\* own (the server never looks inside an item).
NoRequest == [type |-> "none", item |-> NoItem]
Requests(c) ==
  { [type |-> "producer", item |-> c],     \* {'type': 'producer', 'id': .., 'item': ..}
    [type |-> "consumer", item |-> NoItem], \* {'type': 'consumer', 'id': ..}
    [type |-> "other", item |-> c],         \* a JSON object with another or no 'type'
    [type |-> "malformed", item |-> NoItem],\* bytes json.loads / request.get rejects
    [type |-> "empty", item |-> NoItem] }   \* nothing: recv returns b''

\* The handler's `response` dictionary; message is the text and the item
\* formatted into it.
NoResponse == [status |-> "none", message |-> <<"", NoItem>>, item |-> NoItem, buffer_size |-> -1]
ErrInvalidType ==
  [status |-> "error", message |-> <<"Invalid client type", NoItem>>,
   item |-> NoItem, buffer_size |-> -1]
ErrFull ==
  [status |-> "error", message |-> <<"Buffer is full. Try again later.", NoItem>>,
   item |-> NoItem, buffer_size |-> -1]
ErrEmpty ==
  [status |-> "error", message |-> <<"Buffer is empty. No items to consume.", NoItem>>,
   item |-> NoItem, buffer_size |-> -1]
ProducedOk(item, size) ==
  [status |-> "success", message |-> <<"Item added to buffer", item>>,
   item |-> NoItem, buffer_size |-> size]
ConsumedOk(item, size) ==
  [status |-> "success", message |-> <<"Item consumed", item>>,
   item |-> item, buffer_size |-> size]

\* A remote client before continuous_production / continuous_consumption is
\* called; a local thread before it is given a worker to run.
ProdNew ==
  [pc |-> "new", nitems |-> 0, max_retries |-> 0, idx |-> 0, retries |-> 0,
   success |-> FALSE, attempts |-> <<>>]
ConsNew ==
  [pc |-> "new", max_items |-> 0, max_retries |-> 0, items_consumed |-> 0,
   retries |-> 0, item |-> "None", replies |-> <<>>, idle |-> FALSE]
WrkNew ==
  [role |-> "none", wpc |-> "new", student_num |-> 1, running |-> TRUE,
   keys |-> <<>>, failed |-> FALSE, since |-> 0, afterStop |-> FALSE,
   early |-> FALSE]

\* T: the threads that call insert / remove.
InitFor(T, size, buffer_size) ==
  /\ SharedBufferInit(size)
  /\ pc = [t \in T |-> "idle"]
  /\ arg = [t \in T |-> NoItem]
  /\ ret = [t \in T |-> RetNone]
  /\ eff = [t \in T |-> ZeroEff]
  /\ inserted = <<>>
  /\ removed = <<>>
  /\ ncalls = 0
  /\ sawFull = [t \in T |-> FALSE]
  /\ rmSince = [t \in T |-> FALSE]
  /\ SharedBufferServerInit(buffer_size)
  /\ hpc = [c \in Conns |-> "none"]
  /\ request = [c \in Conns |-> NoRequest]
  /\ response = [c \in Conns |-> NoResponse]
  /\ reply = [c \in Conns |-> NoResponse]
  /\ closed = [c \in Conns |-> FALSE]
  /\ seen = [c \in Conns |-> <<>>]
  /\ enq = <<>>
  /\ deq = <<>>
  /\ nsent = [c \in Conns |-> 0]
  /\ raised = [c \in Conns |-> ""]
  /\ prod = ProdNew
  /\ cons = ConsNew
  /\ wrk = [t \in T |-> WrkNew]

InitWith(size, buffer_size) == InitFor(Threads, size, buffer_size)

\* main(): SharedBuffer(CONFIG['BUFFER_SIZE']); SharedBufferServer(buffer_size).
Init == InitWith(Cap, Cap)

\* ------------------------------------------------------ SharedBuffer.insert
\* A thread calls insert(item).
InsertCall(t, item) ==
  /\ pc[t] = "idle"
  /\ ncalls < MaxCalls
  /\ pc' = [pc EXCEPT ![t] = "ins_empty"]
  /\ arg' = [arg EXCEPT ![t] = item]
  /\ ret' = [ret EXCEPT ![t] = RetNone]
  /\ eff' = [eff EXCEPT ![t] = ZeroEff]
  /\ ncalls' = ncalls + 1
  /\ sawFull' = [sawFull EXCEPT ![t] = is_full]
  /\ rmSince' = [rmSince EXCEPT ![t] = FALSE]
  /\ UNCHANGED <<bufVars, inserted, removed, restVars>>

\* self.empty.acquire(timeout) returns True: a permit was there to take.
InsertAcquireEmpty_NoWait(t) ==
  /\ pc[t] = "ins_empty"
  /\ empty' = empty - 1
  /\ pc' = [pc EXCEPT ![t] = "ins_mutex"]
  /\ UNCHANGED <<buffer, maxsize, mutex, full, produced_count, consumed_count, stop_event>>
  /\ UNCHANGED <<arg, ret, inserted, removed, ncalls, sawFull, rmSince, cnt_lock, restVars>>
  /\ Track(t)

InsertAcquireEmpty(t) ==
  /\ pc[t] = "ins_empty"
  /\ empty > 0
  /\ empty' = empty - 1
  /\ pc' = [pc EXCEPT ![t] = "ins_mutex"]
  /\ UNCHANGED <<buffer, maxsize, mutex, full, produced_count, consumed_count, stop_event>>
  /\ UNCHANGED <<arg, ret, inserted, removed, ncalls, sawFull, rmSince, cnt_lock, restVars>>
  /\ Track(t)

\* self.empty.acquire(timeout) returns False: the value was still 0 when the
\* timeout ran out; insert returns False.
InsertEmptyTimeout(t) ==
  /\ pc[t] = "ins_empty"
  /\ empty = 0
  /\ pc' = [pc EXCEPT ![t] = "idle"]
  /\ ret' = [ret EXCEPT ![t] = RetFalse("slot")]
  /\ UNCHANGED <<bufVars, arg, inserted, removed, ncalls, sawFull, rmSince, restVars>>
  /\ Track(t)

\* self.mutex.acquire(timeout) returns True.
InsertAcquireMutex(t) ==
  /\ pc[t] = "ins_mutex"
  /\ mutex > 0
  /\ mutex' = mutex - 1
  /\ pc' = [pc EXCEPT ![t] = "ins_put"]
  /\ UNCHANGED <<buffer, maxsize, empty, full, produced_count, consumed_count, stop_event>>
  /\ UNCHANGED <<arg, ret, inserted, removed, ncalls, sawFull, rmSince, cnt_lock, restVars>>
  /\ Track(t)

\* self.mutex.acquire(timeout) returns False.
InsertMutexTimeout_Proceeds(t) ==
  /\ pc[t] = "ins_mutex"
  /\ mutex = 0
  /\ pc' = [pc EXCEPT ![t] = "ins_put"]
  /\ UNCHANGED <<bufVars, arg, ret, inserted, removed, ncalls, sawFull, rmSince, restVars>>
  /\ Track(t)

InsertMutexTimeout(t) ==
  /\ pc[t] = "ins_mutex"
  /\ mutex = 0
  /\ pc' = [pc EXCEPT ![t] = "ins_giveback"]
  /\ UNCHANGED <<bufVars, arg, ret, inserted, removed, ncalls, sawFull, rmSince, restVars>>
  /\ Track(t)

\* self.empty.release(); return False
InsertGiveBack_Leak(t) ==
  /\ pc[t] = "ins_giveback"
  /\ pc' = [pc EXCEPT ![t] = "idle"]
  /\ ret' = [ret EXCEPT ![t] = RetFalse("mutex")]
  /\ UNCHANGED <<bufVars, arg, inserted, removed, ncalls, sawFull, rmSince, restVars>>
  /\ Track(t)

InsertGiveBack(t) ==
  /\ pc[t] = "ins_giveback"
  /\ empty' = empty + 1
  /\ pc' = [pc EXCEPT ![t] = "idle"]
  /\ ret' = [ret EXCEPT ![t] = RetFalse("mutex")]
  /\ UNCHANGED <<buffer, maxsize, mutex, full, produced_count, consumed_count, stop_event>>
  /\ UNCHANGED <<arg, inserted, removed, ncalls, sawFull, rmSince, cnt_lock, restVars>>
  /\ Track(t)

\* self.buffer.put(item): blocks while the queue is full.
InsertPut(t) ==
  /\ pc[t] = "ins_put"
  /\ ~QFull(buffer, maxsize)
  /\ buffer' = Append(buffer, arg[t])
  /\ inserted' = Append(inserted, arg[t])
  /\ pc' = [pc EXCEPT ![t] = "ins_cntlock"]
  /\ UNCHANGED <<maxsize, mutex, empty, full, produced_count, consumed_count, stop_event>>
  /\ UNCHANGED <<arg, ret, removed, ncalls, sawFull, rmSince, cnt_lock, restVars>>
  /\ Track(t)

\* with self._lock: (enter; blocks while another thread holds it)
InsertCountLock(t) ==
  /\ pc[t] = "ins_cntlock"
  /\ cnt_lock = 0
  /\ cnt_lock' = t
  /\ pc' = [pc EXCEPT ![t] = "ins_count"]
  /\ UNCHANGED <<buffer, maxsize, mutex, empty, full, produced_count, consumed_count, stop_event>>
  /\ UNCHANGED <<arg, ret, inserted, removed, ncalls, sawFull, rmSince, restVars>>
  /\ Track(t)

\* self.produced_count += 1, and the with block is left
InsertCount(t) ==
  /\ pc[t] = "ins_count"
  /\ produced_count' = produced_count + 1
  /\ cnt_lock' = 0
  /\ pc' = [pc EXCEPT ![t] = "ins_relmutex"]
  /\ UNCHANGED <<buffer, maxsize, mutex, empty, full, consumed_count, stop_event>>
  /\ UNCHANGED <<arg, ret, inserted, removed, ncalls, sawFull, rmSince, restVars>>
  /\ Track(t)

\* finally: self.mutex.release()
InsertReleaseMutex(t) ==
  /\ pc[t] = "ins_relmutex"
  /\ mutex' = mutex + 1
  /\ pc' = [pc EXCEPT ![t] = "ins_signal"]
  /\ UNCHANGED <<buffer, maxsize, empty, full, produced_count, consumed_count, stop_event>>
  /\ UNCHANGED <<arg, ret, inserted, removed, ncalls, sawFull, rmSince, cnt_lock, restVars>>
  /\ Track(t)

\* finally: self.full.release(); the call returns True
InsertSignalFull_SignalsEmpty(t) ==
  /\ pc[t] = "ins_signal"
  /\ empty' = empty + 1
  /\ pc' = [pc EXCEPT ![t] = "idle"]
  /\ ret' = [ret EXCEPT ![t] = RetTrue]
  /\ UNCHANGED <<buffer, maxsize, mutex, full, produced_count, consumed_count, stop_event>>
  /\ UNCHANGED <<arg, inserted, removed, ncalls, sawFull, rmSince, cnt_lock, restVars>>
  /\ Track(t)

InsertSignalFull(t) ==
  /\ pc[t] = "ins_signal"
  /\ full' = full + 1
  /\ pc' = [pc EXCEPT ![t] = "idle"]
  /\ ret' = [ret EXCEPT ![t] = RetTrue]
  /\ UNCHANGED <<buffer, maxsize, mutex, empty, produced_count, consumed_count, stop_event>>
  /\ UNCHANGED <<arg, inserted, removed, ncalls, sawFull, rmSince, cnt_lock, restVars>>
  /\ Track(t)

\* ------------------------------------------------------ SharedBuffer.remove
\* A thread calls remove().
RemoveCall(t) ==
  /\ pc[t] = "idle"
  /\ ncalls < MaxCalls
  /\ pc' = [pc EXCEPT ![t] = "rem_full"]
  /\ arg' = [arg EXCEPT ![t] = NoItem]
  /\ ret' = [ret EXCEPT ![t] = RetNone]
  /\ eff' = [eff EXCEPT ![t] = ZeroEff]
  /\ ncalls' = ncalls + 1
  /\ sawFull' = [sawFull EXCEPT ![t] = FALSE]
  /\ rmSince' = [rmSince EXCEPT ![t] = FALSE]
  /\ UNCHANGED <<bufVars, inserted, removed, restVars>>

\* self.full.acquire(timeout) returns True.
RemoveAcquireFull(t) ==
  /\ pc[t] = "rem_full"
  /\ full > 0
  /\ full' = full - 1
  /\ pc' = [pc EXCEPT ![t] = "rem_mutex"]
  /\ UNCHANGED <<buffer, maxsize, mutex, empty, produced_count, consumed_count, stop_event>>
  /\ UNCHANGED <<arg, ret, inserted, removed, ncalls, sawFull, rmSince, cnt_lock, restVars>>
  /\ Track(t)

\* self.full.acquire(timeout) returns False; remove returns None.
\* (Without the timeout argument the acquire never returns False.)
RemoveFullTimeout_NoTimeout(t) ==
  /\ pc[t] = "rem_full"
  /\ FALSE
  /\ UNCHANGED vars

RemoveFullTimeout(t) ==
  /\ pc[t] = "rem_full"
  /\ full = 0
  /\ pc' = [pc EXCEPT ![t] = "idle"]
  /\ ret' = [ret EXCEPT ![t] = RetNoneItem("slot")]
  /\ UNCHANGED <<bufVars, arg, inserted, removed, ncalls, sawFull, rmSince, restVars>>
  /\ Track(t)

\* self.mutex.acquire(timeout) returns True.
RemoveAcquireMutex(t) ==
  /\ pc[t] = "rem_mutex"
  /\ mutex > 0
  /\ mutex' = mutex - 1
  /\ pc' = [pc EXCEPT ![t] = "rem_get"]
  /\ UNCHANGED <<buffer, maxsize, empty, full, produced_count, consumed_count, stop_event>>
  /\ UNCHANGED <<arg, ret, inserted, removed, ncalls, sawFull, rmSince, cnt_lock, restVars>>
  /\ Track(t)

\* self.mutex.acquire(timeout) returns False.
RemoveMutexTimeout(t) ==
  /\ pc[t] = "rem_mutex"
  /\ mutex = 0
  /\ pc' = [pc EXCEPT ![t] = "rem_giveback"]
  /\ UNCHANGED <<bufVars, arg, ret, inserted, removed, ncalls, sawFull, rmSince, restVars>>
  /\ Track(t)

\* self.full.release(); return None
RemoveGiveBack_Leak(t) ==
  /\ pc[t] = "rem_giveback"
  /\ pc' = [pc EXCEPT ![t] = "idle"]
  /\ ret' = [ret EXCEPT ![t] = RetNoneItem("mutex")]
  /\ UNCHANGED <<bufVars, arg, inserted, removed, ncalls, sawFull, rmSince, restVars>>
  /\ Track(t)

RemoveGiveBack(t) ==
  /\ pc[t] = "rem_giveback"
  /\ full' = full + 1
  /\ pc' = [pc EXCEPT ![t] = "idle"]
  /\ ret' = [ret EXCEPT ![t] = RetNoneItem("mutex")]
  /\ UNCHANGED <<buffer, maxsize, mutex, empty, produced_count, consumed_count, stop_event>>
  /\ UNCHANGED <<arg, inserted, removed, ncalls, sawFull, rmSince, cnt_lock, restVars>>
  /\ Track(t)

\* item = self.buffer.get(): blocks while the queue is empty; takes the oldest.
RemoveGet_Newest(t) ==
  /\ pc[t] = "rem_get"
  /\ ~QEmpty(buffer)
  /\ arg' = [arg EXCEPT ![t] = buffer[Len(buffer)]]
  /\ removed' = Append(removed, buffer[Len(buffer)])
  /\ buffer' = SubSeq(buffer, 1, Len(buffer) - 1)
  /\ pc' = [pc EXCEPT ![t] = "rem_cntlock"]
  /\ UNCHANGED <<maxsize, mutex, empty, full, produced_count, consumed_count, stop_event>>
  /\ UNCHANGED <<ret, inserted, ncalls, sawFull, rmSince, cnt_lock, restVars>>
  /\ Track(t)

RemoveGet(t) ==
  /\ pc[t] = "rem_get"
  /\ ~QEmpty(buffer)
  /\ arg' = [arg EXCEPT ![t] = Head(buffer)]
  /\ removed' = Append(removed, Head(buffer))
  /\ buffer' = Tail(buffer)
  /\ pc' = [pc EXCEPT ![t] = "rem_cntlock"]
  /\ UNCHANGED <<maxsize, mutex, empty, full, produced_count, consumed_count, stop_event>>
  /\ UNCHANGED <<ret, inserted, ncalls, sawFull, rmSince, cnt_lock, restVars>>
  /\ Track(t)

\* with self._lock: (enter; blocks while another thread holds it)
RemoveCountLock(t) ==
  /\ pc[t] = "rem_cntlock"
  /\ cnt_lock = 0
  /\ cnt_lock' = t
  /\ pc' = [pc EXCEPT ![t] = "rem_count"]
  /\ UNCHANGED <<buffer, maxsize, mutex, empty, full, produced_count, consumed_count, stop_event>>
  /\ UNCHANGED <<arg, ret, inserted, removed, ncalls, sawFull, rmSince, restVars>>
  /\ Track(t)

\* self.consumed_count += 1, and the with block is left
RemoveCount_CountsProduced(t) ==
  /\ pc[t] = "rem_count"
  /\ produced_count' = produced_count + 1
  /\ cnt_lock' = 0
  /\ pc' = [pc EXCEPT ![t] = "rem_relmutex"]
  /\ UNCHANGED <<buffer, maxsize, mutex, empty, full, consumed_count, stop_event>>
  /\ UNCHANGED <<arg, ret, inserted, removed, ncalls, sawFull, rmSince, restVars>>
  /\ Track(t)

RemoveCount(t) ==
  /\ pc[t] = "rem_count"
  /\ consumed_count' = consumed_count + 1
  /\ cnt_lock' = 0
  /\ pc' = [pc EXCEPT ![t] = "rem_relmutex"]
  /\ UNCHANGED <<buffer, maxsize, mutex, empty, full, produced_count, stop_event>>
  /\ UNCHANGED <<arg, ret, inserted, removed, ncalls, sawFull, rmSince, restVars>>
  /\ Track(t)

\* finally: self.mutex.release()
RemoveReleaseMutex(t) ==
  /\ pc[t] = "rem_relmutex"
  /\ mutex' = mutex + 1
  /\ pc' = [pc EXCEPT ![t] = "rem_signal"]
  /\ UNCHANGED <<buffer, maxsize, empty, full, produced_count, consumed_count, stop_event>>
  /\ UNCHANGED <<arg, ret, inserted, removed, ncalls, sawFull, rmSince, cnt_lock, restVars>>
  /\ Track(t)

\* finally: self.empty.release(); the call returns item
RemoveSignalEmpty_SignalsFull(t) ==
  /\ pc[t] = "rem_signal"
  /\ full' = full + 1
  /\ pc' = [pc EXCEPT ![t] = "idle"]
  /\ ret' = [ret EXCEPT ![t] = RetItem(arg[t])]
  /\ rmSince' = [u \in DOMAIN rmSince |-> TRUE]
  /\ UNCHANGED <<buffer, maxsize, mutex, empty, produced_count, consumed_count, stop_event>>
  /\ UNCHANGED <<arg, inserted, removed, ncalls, sawFull, cnt_lock, restVars>>
  /\ Track(t)

RemoveSignalEmpty(t) ==
  /\ pc[t] = "rem_signal"
  /\ empty' = empty + 1
  /\ pc' = [pc EXCEPT ![t] = "idle"]
  /\ ret' = [ret EXCEPT ![t] = RetItem(arg[t])]
  /\ rmSince' = [u \in DOMAIN rmSince |-> TRUE]
  /\ UNCHANGED <<buffer, maxsize, mutex, full, produced_count, consumed_count, stop_event>>
  /\ UNCHANGED <<arg, inserted, removed, ncalls, sawFull, cnt_lock, restVars>>
  /\ Track(t)

\* ------------------------------------------------------- local engine spec
\* One statement of a call already in progress in thread t.
InsertStep(t) ==
  \/ InsertAcquireEmpty(t)
  \/ InsertEmptyTimeout(t)
  \/ InsertAcquireMutex(t)
  \/ InsertMutexTimeout(t)
  \/ InsertGiveBack(t)
  \/ InsertPut(t)
  \/ InsertCountLock(t)
  \/ InsertCount(t)
  \/ InsertReleaseMutex(t)
  \/ InsertSignalFull(t)

RemoveStep(t) ==
  \/ RemoveAcquireFull(t)
  \/ RemoveFullTimeout(t)
  \/ RemoveAcquireMutex(t)
  \/ RemoveMutexTimeout(t)
  \/ RemoveGiveBack(t)
  \/ RemoveGet(t)
  \/ RemoveCountLock(t)
  \/ RemoveCount(t)
  \/ RemoveReleaseMutex(t)
  \/ RemoveSignalEmpty(t)

ThreadStep(t) == InsertStep(t) \/ RemoveStep(t)

Next ==
  \/ \E t \in Threads, item \in NewItems : InsertCall(t, item)
  \/ \E t \in Threads : RemoveCall(t)
  \/ \E t \in Threads : InsertStep(t)
  \/ \E t \in Threads : RemoveStep(t)

Spec == Init /\ [][Next]_vars

\* Threads are scheduled: a call in progress takes its next statement.  Every
\* wait inside insert / remove is an acquire with a timeout, so a statement
\* is always there to take.
Fairness == \A t \in Threads : WF_vars(ThreadStep(t))

NextLive ==
  \/ ncalls < LiveCalls /\ \E t \in Threads, item \in NewItems : InsertCall(t, item)
  \/ ncalls < LiveCalls /\ \E t \in Threads : RemoveCall(t)
  \/ \E t \in Threads : InsertStep(t)
  \/ \E t \in Threads : RemoveStep(t)

SpecLive == Init /\ [][NextLive]_vars /\ Fairness

\* ============================================================ local claims
AllIdle == \A t \in Threads : pc[t] = "idle"
\* Between a successful self.mutex.acquire and the matching self.mutex.release.
InsertCS == {"ins_put", "ins_cntlock", "ins_count", "ins_relmutex"}
RemoveCS == {"rem_get", "rem_cntlock", "rem_count", "rem_relmutex"}
InCS(t) == pc[t] \in InsertCS \cup RemoveCS
Failed(t) == pc[t] = "idle" /\ ret[t].kind \in {"False", "None"}
Range(q) == {q[i] : i \in 1..Len(q)}
IsPrefix(p, q) == Len(p) <= Len(q) /\ SubSeq(q, 1, Len(p)) = p

\* C1: in every reachable state, under any interleaving of insert and remove
\* calls (successful or timed out), the number of buffered items is within
\* 0..C, and so are the snapshot reads: get_size is in 0..C, is_full is
\* exactly "size = C" and is_empty exactly "size = 0".
C1_CapacityInvariant ==
  /\ get_size \in 0..Cap
  /\ is_full <=> (get_size = Cap)
  /\ is_empty <=> (get_size = 0)

\* The buffer is full while one thread waits to insert and another is part-way
\* through a remove.
C1_Witness ==
  /\ get_size = Cap
  /\ \E t \in Threads : pc[t] = "ins_empty"
  /\ \E t \in Threads : pc[t] = "rem_mutex"

\* C2: whenever no insert or remove call is in progress, the empty semaphore
\* plus the full semaphore equals C, whatever calls timed out before.
C2_PermitConservation == AllIdle => empty + full = Cap

\* No call is in progress and an insert has timed out at the mutex gate.
C2_Witness ==
  /\ AllIdle
  /\ \E t \in Threads : ret[t] = RetFalse("mutex")

\* C3: a call that returned False (insert) or None (remove), at either gate,
\* has made no net change to the buffer, the counters, the mutex or the two
\* slot semaphores: whatever it took it gave back before returning.
C3_FailedCallChangesNothing ==
  \A t \in Threads : Failed(t) => eff[t] = ZeroEff

\* A remove has timed out at the mutex gate, after taking a full permit.
C3_Witness ==
  \E t \in Threads : pc[t] = "idle" /\ ret[t] = RetNoneItem("mutex")

\* C4: the items in the order remove took them are a prefix of the items in
\* the order insert appended them, the rest being the buffer's contents; a
\* remove returns the item it took.
C4_FIFO ==
  /\ IsPrefix(removed, inserted)
  /\ inserted = removed \o buffer
  /\ \A t \in Threads :
       pc[t] = "idle" /\ ret[t].kind = "item" => ret[t].val \in Range(removed)

\* A remove has returned the oldest of two buffered items; the newer one is
\* still in the buffer.
C4_Witness ==
  /\ Len(removed) >= 1
  /\ Len(buffer) >= 1
  /\ \E t \in Threads : pc[t] = "idle" /\ ret[t] = RetItem(removed[1])

\* C5: at most one thread is between a successful mutex.acquire and the
\* matching release; the mutex value is 0 while a thread is there and 1
\* otherwise; and every step that changes the buffer is taken by a thread
\* inside that section.
C5_MutexInv ==
  /\ Cardinality({t \in Threads : InCS(t)}) <= 1
  /\ mutex \in {0, 1}
  /\ mutex = 0 <=> \E t \in Threads : InCS(t)

C5_MutualExclusion ==
  /\ []C5_MutexInv
  /\ [][buffer' # buffer =>
          \E t \in Threads : InCS(t) /\ pc'[t] # pc[t] /\ mutex = 0]_vars

\* One thread is inside the critical section while another has just timed
\* out waiting for the mutex.
C5_Witness ==
  \E t, u \in Threads : InCS(t) /\ pc[u] \in {"ins_giveback", "rem_giveback"}

\* C6: an insert called when the buffer holds C items goes to wait on the
\* empty semaphore, whose value is then 0; as long as no remove has completed
\* since the call it is either still waiting or has returned False by the
\* slot timeout, and its item has not been appended.
C6_FullBufferInsert ==
  \A t \in Threads :
    sawFull[t] /\ ~rmSince[t] =>
      /\ \/ pc[t] = "ins_empty" /\ empty = 0
         \/ pc[t] = "idle" /\ ret[t] = RetFalse("slot")
      /\ arg[t] \notin Range(inserted)

\* An insert called on a full buffer has returned False and no remove has
\* completed since it was called.
C6_Witness ==
  \E t \in Threads :
    sawFull[t] /\ ~rmSince[t] /\ pc[t] = "idle" /\ ret[t] = RetFalse("slot")

\* The other half of C6, a reachable state: an insert called on a full buffer
\* has returned True after a remove completed.
C6_WaiterSucceeds ==
  \E t \in Threads : sawFull[t] /\ rmSince[t] /\ pc[t] = "idle" /\ ret[t] = RetTrue

\* C7: every insert call and every remove call eventually returns.
C7_EveryCallReturns ==
  \A t \in Threads : (pc[t] # "idle") ~> (pc[t] = "idle")

\* Two calls met at the mutex: one returned by the mutex timeout, the other
\* returned True.
C7_Witness ==
  \E t, u \in Threads :
    /\ pc[t] = "idle" /\ ret[t].gate = "mutex"
    /\ pc[u] = "idle" /\ ret[u] = RetTrue

\* ------------------------------------------------ slot accounting mid-call
\* Inserts that hold an empty permit whose item is not in the buffer (yet, or
\* at all: at "ins_giveback" the permit is about to be returned).
SlotTaken == {t \in Threads : pc[t] \in {"ins_mutex", "ins_giveback", "ins_put"}}
\* Inserts whose item is in the buffer and whose full.release() is still to come.
PutUnsignalled == {t \in Threads : pc[t] \in {"ins_cntlock", "ins_count", "ins_relmutex", "ins_signal"}}
\* Removes that hold a full permit and have not taken their item.
ItemClaimed == {t \in Threads : pc[t] \in {"rem_mutex", "rem_giveback", "rem_get"}}
\* Removes that took their item and whose empty.release() is still to come.
GotUnsignalled == {t \in Threads : pc[t] \in {"rem_cntlock", "rem_count", "rem_relmutex", "rem_signal"}}
\* No call is between acquiring a slot permit and the matching signal.
NoCallMidway == SlotTaken \cup PutUnsignalled \cup ItemClaimed \cup GotUnsignalled = {}

\* C18 as stated: in every reachable state, calls part-way through included,
\* empty + buffered items = C and full = buffered items.
C18_Original ==
  /\ empty + Len(buffer) = Cap
  /\ full = Len(buffer)

\* C18 as it holds: in every reachable state the empty permits, the buffered
\* items, the permits held by inserts that have not appended and the slots
\* freed by removes that have not signalled add up to C; the full permits
\* plus those held by removes that have not taken their item plus the items
\* appended by inserts that have not signalled equal the buffered items; so
\* the two equalities of the claim hold whenever no call is between acquiring
\* a permit and the matching signal, and both semaphores stay within 0..C.
C18_SlotAccounting ==
  /\ empty + Len(buffer) + Cardinality(SlotTaken) + Cardinality(GotUnsignalled) = Cap
  /\ full + Cardinality(ItemClaimed) + Cardinality(PutUnsignalled) = Len(buffer)
  /\ NoCallMidway => C18_Original
  /\ empty \in 0..Cap /\ full \in 0..Cap

\* Both kinds of call are part-way through at once: an insert holds a permit
\* and has not appended, a remove holds a permit and has not taken its item,
\* and neither equality of the claim holds.
C18_Witness ==
  /\ SlotTaken # {} /\ ItemClaimed # {}
  /\ empty + Len(buffer) # Cap
  /\ full # Len(buffer)

\* ------------------------------------------------- counters and the queue
\* C24: consumed_count never exceeds produced_count; whenever the mutex is
\* not held produced_count - consumed_count is the number of buffered items,
\* in particular when no call is in progress, whatever calls timed out; and
\* the counters count the puts and the gets.
C24_CounterAgreement ==
  /\ consumed_count <= produced_count
  /\ mutex = 1 => produced_count - consumed_count = Len(buffer)
  /\ AllIdle => get_size = produced_count - consumed_count
  /\ mutex = 1 => produced_count = Len(inserted) /\ consumed_count = Len(removed)

\* No call is in progress, items were produced and consumed, one is left in
\* the buffer, and a call has timed out.
C24_Witness ==
  /\ AllIdle /\ consumed_count >= 1 /\ get_size >= 1
  /\ \E t \in Threads : Failed(t)

\* C25: a thread about to execute the blocking put inside insert's critical
\* section holds the mutex and finds fewer than C items, so the put can be
\* taken at once; a thread about to execute the blocking get inside remove's
\* critical section holds the mutex and finds at least one item; timed-out
\* calls do not change that.
C25_QueueNeverBlocks ==
  \A t \in Threads :
    /\ pc[t] = "ins_put" =>
         /\ mutex = 0 /\ Len(buffer) < Cap /\ ~QFull(buffer, maxsize)
         /\ ENABLED InsertPut(t)
    /\ pc[t] = "rem_get" =>
         /\ mutex = 0 /\ Len(buffer) >= 1 /\ ~QEmpty(buffer)
         /\ ENABLED RemoveGet(t)

\* A remove is about to get the only buffered item while the other thread's
\* insert has timed out at the mutex.
C25_Witness ==
  \E t, u \in Threads :
    /\ pc[t] = "rem_get" /\ Len(buffer) = 1
    /\ pc[u] = "idle" /\ ret[u] = RetFalse("mutex")

\* ====================================================== SharedBufferServer
\* start(): server_socket.accept() returns a connection and a thread running
\* handle_client is started for it; req is what its client sends.
Accept(c, req) ==
  /\ hpc[c] = "none"
  /\ hpc' = [hpc EXCEPT ![c] = "recv"]
  /\ request' = [request EXCEPT ![c] = req]
  /\ UNCHANGED <<srv_buffer, srv_maxsize, lock, response, reply, closed, seen, enq, deq, stop_event>>
  /\ UNCHANGED <<nsent, raised>>
  /\ UNCHANGED <<localVars, cliVars, wrkVars>>

\* handle_client: recv returns b'' -> return (finally closes).
RecvEmpty(c) ==
  /\ hpc[c] = "recv"
  /\ request[c].type = "empty"
  /\ hpc' = [hpc EXCEPT ![c] = "close"]
  /\ UNCHANGED <<srv_buffer, srv_maxsize, lock, request, response, reply, closed, seen, enq, deq, stop_event>>
  /\ UNCHANGED <<nsent, raised>>
  /\ UNCHANGED <<localVars, cliVars, wrkVars>>

\* handle_client: json.loads(data) or request.get raises -> except prints
\* (finally closes).
RecvMalformed(c) ==
  /\ hpc[c] = "recv"
  /\ request[c].type = "malformed"
  /\ raised' = [raised EXCEPT ![c] = "parse"]
  /\ nsent' = nsent
  /\ hpc' = [hpc EXCEPT ![c] = "close"]
  /\ UNCHANGED <<srv_buffer, srv_maxsize, lock, request, response, reply, closed, seen, enq, deq, stop_event>>
  /\ UNCHANGED <<localVars, cliVars, wrkVars>>

\* handle_client: client_type == 'producer' -> handle_producer, up to the lock.
DispatchProducer(c) ==
  /\ hpc[c] = "recv"
  /\ request[c].type = "producer"
  /\ hpc' = [hpc EXCEPT ![c] = "p_lock"]
  /\ UNCHANGED <<srv_buffer, srv_maxsize, lock, request, response, reply, closed, seen, enq, deq, stop_event>>
  /\ UNCHANGED <<nsent, raised>>
  /\ UNCHANGED <<localVars, cliVars, wrkVars>>

\* handle_client: client_type == 'consumer' -> handle_consumer, up to the lock.
DispatchConsumer(c) ==
  /\ hpc[c] = "recv"
  /\ request[c].type = "consumer"
  /\ hpc' = [hpc EXCEPT ![c] = "c_lock"]
  /\ UNCHANGED <<srv_buffer, srv_maxsize, lock, request, response, reply, closed, seen, enq, deq, stop_event>>
  /\ UNCHANGED <<nsent, raised>>
  /\ UNCHANGED <<localVars, cliVars, wrkVars>>

DispatchInvalid_AsConsumer(c) ==
  /\ hpc[c] = "recv"
  /\ request[c].type = "other"
  /\ hpc' = [hpc EXCEPT ![c] = "c_lock"]
  /\ UNCHANGED <<srv_buffer, srv_maxsize, lock, request, response, reply, closed, seen, enq, deq, stop_event>>
  /\ UNCHANGED <<nsent, raised>>
  /\ UNCHANGED <<localVars, cliVars, wrkVars>>

\* handle_client: any other type -> response = Invalid client type, then send.
DispatchInvalid(c) ==
  /\ hpc[c] = "recv"
  /\ request[c].type = "other"
  /\ response' = [response EXCEPT ![c] = ErrInvalidType]
  /\ hpc' = [hpc EXCEPT ![c] = "send"]
  /\ UNCHANGED <<srv_buffer, srv_maxsize, lock, request, reply, closed, seen, enq, deq, stop_event>>
  /\ UNCHANGED <<nsent, raised>>
  /\ UNCHANGED <<localVars, cliVars, wrkVars>>

\* ---------------------------------------------------------- handle_producer
\* with self.lock: (enter)
ProducerLock_NoLock(c) ==
  /\ hpc[c] = "p_lock"
  /\ seen' = [seen EXCEPT ![c] = srv_buffer]
  /\ hpc' = [hpc EXCEPT ![c] = "p_check"]
  /\ UNCHANGED <<srv_buffer, srv_maxsize, lock, request, response, reply, closed, enq, deq, stop_event>>
  /\ UNCHANGED <<nsent, raised>>
  /\ UNCHANGED <<localVars, cliVars, wrkVars>>

ProducerLock(c) ==
  /\ hpc[c] = "p_lock"
  /\ lock = 0
  /\ lock' = c
  /\ seen' = [seen EXCEPT ![c] = srv_buffer]
  /\ hpc' = [hpc EXCEPT ![c] = "p_check"]
  /\ UNCHANGED <<srv_buffer, srv_maxsize, request, response, reply, closed, enq, deq, stop_event>>
  /\ UNCHANGED <<nsent, raised>>
  /\ UNCHANGED <<localVars, cliVars, wrkVars>>

\* if self.buffer.full(): response = error ... else: (go on to put)
ProducerCheck_NoCheck(c) ==
  /\ hpc[c] = "p_check"
  /\ hpc' = [hpc EXCEPT ![c] = "p_put"]
  /\ UNCHANGED <<srv_buffer, srv_maxsize, lock, request, response, reply, closed, seen, enq, deq, stop_event>>
  /\ UNCHANGED <<nsent, raised>>
  /\ UNCHANGED <<localVars, cliVars, wrkVars>>

ProducerCheck(c) ==
  /\ hpc[c] = "p_check"
  /\ IF QFull(srv_buffer, srv_maxsize)
       THEN /\ response' = [response EXCEPT ![c] = ErrFull]
            /\ hpc' = [hpc EXCEPT ![c] = "p_unlock"]
       ELSE /\ response' = response
            /\ hpc' = [hpc EXCEPT ![c] = "p_put"]
  /\ UNCHANGED <<srv_buffer, srv_maxsize, lock, request, reply, closed, seen, enq, deq, stop_event>>
  /\ UNCHANGED <<nsent, raised>>
  /\ UNCHANGED <<localVars, cliVars, wrkVars>>

\* self.buffer.put(item): blocks while the queue is full.
ProducerPut(c) ==
  /\ hpc[c] = "p_put"
  /\ ~QFull(srv_buffer, srv_maxsize)
  /\ srv_buffer' = Append(srv_buffer, request[c].item)
  /\ enq' = Append(enq, request[c].item)
  /\ hpc' = [hpc EXCEPT ![c] = "p_size"]
  /\ UNCHANGED <<srv_maxsize, lock, request, response, reply, closed, seen, deq, stop_event>>
  /\ UNCHANGED <<nsent, raised>>
  /\ UNCHANGED <<localVars, cliVars, wrkVars>>

\* response = {'status': 'success', ..., 'buffer_size': self.buffer.qsize()}
ProducerRespond_SizeBeforePut(c) ==
  /\ hpc[c] = "p_size"
  /\ response' = [response EXCEPT ![c] = ProducedOk(request[c].item, QSize(srv_buffer) - 1)]
  /\ hpc' = [hpc EXCEPT ![c] = "p_unlock"]
  /\ UNCHANGED <<srv_buffer, srv_maxsize, lock, request, reply, closed, seen, enq, deq, stop_event>>
  /\ UNCHANGED <<nsent, raised>>
  /\ UNCHANGED <<localVars, cliVars, wrkVars>>

ProducerRespond(c) ==
  /\ hpc[c] = "p_size"
  /\ response' = [response EXCEPT ![c] = ProducedOk(request[c].item, QSize(srv_buffer))]
  /\ hpc' = [hpc EXCEPT ![c] = "p_unlock"]
  /\ UNCHANGED <<srv_buffer, srv_maxsize, lock, request, reply, closed, seen, enq, deq, stop_event>>
  /\ UNCHANGED <<nsent, raised>>
  /\ UNCHANGED <<localVars, cliVars, wrkVars>>

\* with self.lock: (leave)
ProducerUnlock_SendInsideLock(c) ==
  /\ hpc[c] = "p_unlock"
  /\ hpc' = [hpc EXCEPT ![c] = "send"]
  /\ UNCHANGED <<srv_buffer, srv_maxsize, lock, request, response, reply, closed, seen, enq, deq, stop_event>>
  /\ UNCHANGED <<nsent, raised>>
  /\ UNCHANGED <<localVars, cliVars, wrkVars>>

ProducerUnlock(c) ==
  /\ hpc[c] = "p_unlock"
  /\ lock' = 0
  /\ hpc' = [hpc EXCEPT ![c] = "send"]
  /\ UNCHANGED <<srv_buffer, srv_maxsize, request, response, reply, closed, seen, enq, deq, stop_event>>
  /\ UNCHANGED <<nsent, raised>>
  /\ UNCHANGED <<localVars, cliVars, wrkVars>>

\* ---------------------------------------------------------- handle_consumer
\* with self.lock: (enter)
ConsumerLock(c) ==
  /\ hpc[c] = "c_lock"
  /\ lock = 0
  /\ lock' = c
  /\ seen' = [seen EXCEPT ![c] = srv_buffer]
  /\ hpc' = [hpc EXCEPT ![c] = "c_check"]
  /\ UNCHANGED <<srv_buffer, srv_maxsize, request, response, reply, closed, enq, deq, stop_event>>
  /\ UNCHANGED <<nsent, raised>>
  /\ UNCHANGED <<localVars, cliVars, wrkVars>>

\* if self.buffer.empty(): response = error ... else: (go on to get)
ConsumerCheck_NoCheck(c) ==
  /\ hpc[c] = "c_check"
  /\ hpc' = [hpc EXCEPT ![c] = "c_get"]
  /\ UNCHANGED <<srv_buffer, srv_maxsize, lock, request, response, reply, closed, seen, enq, deq, stop_event>>
  /\ UNCHANGED <<nsent, raised>>
  /\ UNCHANGED <<localVars, cliVars, wrkVars>>

ConsumerCheck(c) ==
  /\ hpc[c] = "c_check"
  /\ IF QEmpty(srv_buffer)
       THEN /\ response' = [response EXCEPT ![c] = ErrEmpty]
            /\ hpc' = [hpc EXCEPT ![c] = "c_unlock"]
       ELSE /\ response' = response
            /\ hpc' = [hpc EXCEPT ![c] = "c_get"]
  /\ UNCHANGED <<srv_buffer, srv_maxsize, lock, request, reply, closed, seen, enq, deq, stop_event>>
  /\ UNCHANGED <<nsent, raised>>
  /\ UNCHANGED <<localVars, cliVars, wrkVars>>

\* item = self.buffer.get(): blocks while the queue is empty; takes the oldest.
\* The local `item` is kept in response[c].item until the response is built.
ConsumerGet_Peek(c) ==
  /\ hpc[c] = "c_get"
  /\ ~QEmpty(srv_buffer)
  /\ response' = [response EXCEPT ![c].item = Head(srv_buffer)]
  /\ deq' = Append(deq, Head(srv_buffer))
  /\ hpc' = [hpc EXCEPT ![c] = "c_size"]
  /\ UNCHANGED <<srv_buffer, srv_maxsize, lock, request, reply, closed, seen, enq, stop_event>>
  /\ UNCHANGED <<nsent, raised>>
  /\ UNCHANGED <<localVars, cliVars, wrkVars>>

ConsumerGet(c) ==
  /\ hpc[c] = "c_get"
  /\ ~QEmpty(srv_buffer)
  /\ response' = [response EXCEPT ![c].item = Head(srv_buffer)]
  /\ deq' = Append(deq, Head(srv_buffer))
  /\ srv_buffer' = Tail(srv_buffer)
  /\ hpc' = [hpc EXCEPT ![c] = "c_size"]
  /\ UNCHANGED <<srv_maxsize, lock, request, reply, closed, seen, enq, stop_event>>
  /\ UNCHANGED <<nsent, raised>>
  /\ UNCHANGED <<localVars, cliVars, wrkVars>>

\* response = {'status': 'success', 'item': item, ..., 'buffer_size': self.buffer.qsize()}
ConsumerRespond(c) ==
  /\ hpc[c] = "c_size"
  /\ response' = [response EXCEPT ![c] = ConsumedOk(response[c].item, QSize(srv_buffer))]
  /\ hpc' = [hpc EXCEPT ![c] = "c_unlock"]
  /\ UNCHANGED <<srv_buffer, srv_maxsize, lock, request, reply, closed, seen, enq, deq, stop_event>>
  /\ UNCHANGED <<nsent, raised>>
  /\ UNCHANGED <<localVars, cliVars, wrkVars>>

\* with self.lock: (leave)
ConsumerUnlock(c) ==
  /\ hpc[c] = "c_unlock"
  /\ lock' = 0
  /\ hpc' = [hpc EXCEPT ![c] = "send"]
  /\ UNCHANGED <<srv_buffer, srv_maxsize, request, response, reply, closed, seen, enq, deq, stop_event>>
  /\ UNCHANGED <<nsent, raised>>
  /\ UNCHANGED <<localVars, cliVars, wrkVars>>

\* ------------------------------------------------------ reply and close
\* client_socket.send(json.dumps(response).encode('utf-8'))
Send(c) ==
  /\ hpc[c] = "send"
  /\ reply' = [reply EXCEPT ![c] = response[c]]
  /\ nsent' = [nsent EXCEPT ![c] = @ + 1]
  /\ raised' = raised
  /\ hpc' = [hpc EXCEPT ![c] = "close"]
  /\ UNCHANGED <<srv_buffer, srv_maxsize, lock, request, response, closed, seen, enq, deq, stop_event>>
  /\ UNCHANGED <<localVars, cliVars, wrkVars>>

\* client_socket.send raises (the client has gone): handle_client's except
\* prints, nothing is delivered.
SendFails_NoFinally(c) ==
  /\ hpc[c] = "send"
  /\ raised' = [raised EXCEPT ![c] = "send"]
  /\ nsent' = nsent
  /\ hpc' = [hpc EXCEPT ![c] = "done"]
  /\ UNCHANGED <<srv_buffer, srv_maxsize, lock, request, response, reply, closed, seen, enq, deq, stop_event>>
  /\ UNCHANGED <<localVars, cliVars, wrkVars>>

SendFails(c) ==
  /\ hpc[c] = "send"
  /\ raised' = [raised EXCEPT ![c] = "send"]
  /\ nsent' = nsent
  /\ hpc' = [hpc EXCEPT ![c] = "close"]
  /\ UNCHANGED <<srv_buffer, srv_maxsize, lock, request, response, reply, closed, seen, enq, deq, stop_event>>
  /\ UNCHANGED <<localVars, cliVars, wrkVars>>

\* finally: client_socket.close()
Close(c) ==
  /\ hpc[c] = "close"
  /\ closed' = [closed EXCEPT ![c] = TRUE]
  /\ hpc' = [hpc EXCEPT ![c] = "done"]
  /\ UNCHANGED <<srv_buffer, srv_maxsize, lock, request, response, reply, seen, enq, deq, stop_event>>
  /\ UNCHANGED <<nsent, raised>>
  /\ UNCHANGED <<localVars, cliVars, wrkVars>>

HandleClient(c) ==
  \/ RecvEmpty(c)
  \/ RecvMalformed(c)
  \/ DispatchProducer(c)
  \/ DispatchConsumer(c)
  \/ DispatchInvalid(c)
  \/ Send(c)
  \/ SendFails(c)
  \/ Close(c)

HandleProducer(c) ==
  \/ ProducerLock(c)
  \/ ProducerCheck(c)
  \/ ProducerPut(c)
  \/ ProducerRespond(c)
  \/ ProducerUnlock(c)

HandleConsumer(c) ==
  \/ ConsumerLock(c)
  \/ ConsumerCheck(c)
  \/ ConsumerGet(c)
  \/ ConsumerRespond(c)
  \/ ConsumerUnlock(c)

NextNet ==
  \/ \E c \in Conns : \E req \in Requests(c) : Accept(c, req)
  \/ \E c \in Conns : HandleClient(c)
  \/ \E c \in Conns : HandleProducer(c)
  \/ \E c \in Conns : HandleConsumer(c)

SpecNet == Init /\ [][NextNet]_vars

\* The server with its own small capacity and fewer connections, each handler
\* thread scheduled fairly: a handler that can take a step (the lock is free
\* when it waits for the lock) eventually takes one.
InitNetLive == InitWith(Cap, LiveCap)

HandlerStep(c) == HandleClient(c) \/ HandleProducer(c) \/ HandleConsumer(c)

NextNetLive ==
  \/ \E c \in Conns : \E req \in Requests(c) : c <= LiveConns /\ Accept(c, req)
  \/ \E c \in Conns : HandleClient(c)
  \/ \E c \in Conns : HandleProducer(c)
  \/ \E c \in Conns : HandleConsumer(c)

FairnessNet == \A c \in Conns : WF_vars(HandlerStep(c))

SpecNetLive == InitNetLive /\ [][NextNetLive]_vars /\ FairnessNet

\* ========================================================== server claims
Min(a, b) == IF a <= b THEN a ELSE b
Accepted == {c \in Conns : hpc[c] # "none"}
\* The handler of c is past its capacity check.
ProducerChecked(c) ==
  request[c].type = "producer" /\ hpc[c] \in {"p_put", "p_size", "p_unlock", "send", "close", "done"}
ConsumerChecked(c) ==
  request[c].type = "consumer" /\ hpc[c] \in {"c_get", "c_size", "c_unlock", "send", "close", "done"}
\* The handler of c has built its response and left the capacity-check-and-mutate step.
ProducerAnswered(c) ==
  request[c].type = "producer" /\ hpc[c] \in {"p_unlock", "send", "close", "done"}
ConsumerAnswered(c) ==
  request[c].type = "consumer" /\ hpc[c] \in {"c_unlock", "send", "close", "done"}
Successes == {c \in Conns : response[c].status = "success"}
\* Only produce requests were accepted and each has been handled to the end.
OnlyProducersAllDone ==
  /\ Accepted # {}
  /\ \A c \in Accepted : request[c].type = "producer" /\ hpc[c] = "done"

\* C8: under any interleaving of concurrently handled requests the server's
\* buffer size stays within 0..C and the capacity check a handler made still
\* holds when it mutates the queue (a put finds room, a get finds an item);
\* when N produce requests and nothing else have been handled against the
\* initially empty buffer, exactly min(N, C) of them were answered success
\* and the buffer holds exactly min(N, C) items.
C8_NetCapacity ==
  /\ QSize(srv_buffer) \in 0..Cap
  /\ \A c \in Conns : hpc[c] = "p_put" => ~QFull(srv_buffer, srv_maxsize)
  /\ \A c \in Conns : hpc[c] = "c_get" => ~QEmpty(srv_buffer)
  /\ OnlyProducersAllDone =>
       /\ Cardinality(Successes) = Min(Cardinality(Accepted), Cap)
       /\ QSize(srv_buffer) = Min(Cardinality(Accepted), Cap)

\* More produce requests than the capacity have all been handled.
C8_Witness ==
  /\ OnlyProducersAllDone
  /\ Cardinality(Accepted) > Cap
  /\ QSize(srv_buffer) = Cap

\* C9: a produce request handled when the buffer holds C items is answered
\* {error, "Buffer is full..."} and its item is not enqueued; a consume
\* request handled when the buffer is empty is answered {error, "Buffer is
\* empty..."}; either handler leaves the lock with the buffer as it found
\* it, and what is sent is the response that was built.
C9_FailFast ==
  \A c \in Conns :
    /\ ProducerChecked(c) /\ QFull(seen[c], srv_maxsize) =>
         /\ response[c] = ErrFull
         /\ request[c].item \notin Range(enq)
         /\ hpc[c] = "p_unlock" => srv_buffer = seen[c]
    /\ ConsumerChecked(c) /\ QEmpty(seen[c]) =>
         /\ response[c] = ErrEmpty
         /\ hpc[c] = "c_unlock" => srv_buffer = seen[c]
    /\ request[c].type \in {"producer", "consumer"} /\ reply[c] # NoResponse =>
         reply[c] = response[c]

\* A produce request found the buffer full, was refused, and was sent the
\* error reply; the buffer still holds the C items enqueued before it.
C9_Witness ==
  \E c \in Conns :
    /\ request[c].type = "producer"
    /\ QFull(seen[c], srv_maxsize)
    /\ reply[c] = ErrFull
    /\ srv_buffer = seen[c]

\* The consume half of C9, a reachable state: a consume request found the
\* buffer empty and was sent the error reply.
C9_EmptyRefused ==
  \E c \in Conns :
    request[c].type = "consumer" /\ QEmpty(seen[c]) /\ reply[c] = ErrEmpty

\* C10: a produce handled when size < C appends its item at the tail and is
\* answered success with buffer_size = previous size + 1; a consume handled
\* when size >= 1 removes the oldest item and is answered success with that
\* item and buffer_size = previous size - 1; the handler leaves the lock with
\* the buffer exactly so changed; items are dequeued in the order enqueued.
C10_SuccessPath ==
  /\ \A c \in Conns :
       /\ ProducerAnswered(c) /\ ~QFull(seen[c], srv_maxsize) =>
            /\ response[c] = ProducedOk(request[c].item, QSize(seen[c]) + 1)
            /\ request[c].item \in Range(enq)
            /\ hpc[c] = "p_unlock" => srv_buffer = Append(seen[c], request[c].item)
       /\ ConsumerAnswered(c) /\ ~QEmpty(seen[c]) =>
            /\ response[c] = ConsumedOk(Head(seen[c]), QSize(seen[c]) - 1)
            /\ Head(seen[c]) \in Range(deq)
            /\ hpc[c] = "c_unlock" => srv_buffer = Tail(seen[c])
  /\ enq = deq \o srv_buffer

\* A consumer was sent the oldest of two enqueued items while another
\* connection was being handled.
C10_Witness ==
  \E c, d \in Conns :
    /\ request[c].type = "consumer" /\ reply[c].status = "success"
    /\ QSize(seen[c]) = 2 /\ reply[c].item = enq[1]
    /\ hpc[d] \in {"p_lock", "c_lock", "send"}

\* The handler of c has read its request and gone past the dispatch on its type.
Dispatched(c) == hpc[c] \notin {"none", "recv"}
\* The step being taken is a step of the handler of c.
StepOf(c) == hpc'[c] # hpc[c]

C11_InvalidTypeInv ==
  \A c \in Conns :
    request[c].type = "other" /\ Dispatched(c) =>
      /\ response[c] = ErrInvalidType
      /\ hpc[c] \in {"send", "close", "done"}
      /\ lock # c
      /\ seen[c] = <<>> /\ request[c].item \notin Range(enq)
      /\ reply[c] \in {NoResponse, ErrInvalidType}
      /\ closed[c] /\ raised[c] # "send" => reply[c] = ErrInvalidType

\* C11: a request whose type is neither 'producer' nor 'consumer' (a missing
\* type included) gets the response {error, "Invalid client type"}, which is
\* what is sent; no step of its handler changes the buffer contents or size,
\* and no step of its handler acquires (or changes) the server lock.
C11_InvalidType ==
  /\ []C11_InvalidTypeInv
  /\ [][\A c \in Conns :
          request'[c].type = "other" /\ StepOf(c) =>
            /\ srv_buffer' = srv_buffer
            /\ srv_maxsize' = srv_maxsize
            /\ lock' = lock /\ lock' # c]_vars

\* A request of an unknown type was sent the error reply while the buffer
\* held an item and another handler held the lock.
C11_Witness ==
  \E c \in Conns :
    /\ request[c].type = "other" /\ reply[c] = ErrInvalidType
    /\ QSize(srv_buffer) >= 1
    /\ lock \notin {0, c}

\* The requests that fail at the protocol level: bytes that are not a JSON
\* object, an empty read, an unrecognized type.
ProtocolFailure(c) == request[c].type \in {"malformed", "empty", "other"}

\* C12: every malformed request (bytes that do not parse as a JSON object, or
\* an empty read) and every request of an unrecognized type has been sent a
\* reply with status 'error' by the time its connection is closed (unless the
\* send itself failed), and its handler has left the buffer unchanged.
C12_ProtocolFailureReplied ==
  \A c \in Conns :
    ProtocolFailure(c) /\ Dispatched(c) =>
      /\ seen[c] = <<>> /\ request[c].item \notin Range(enq)
      /\ closed[c] /\ raised[c] # "send" => reply[c].status = "error"

\* What the code does instead, a reachable state: bytes that did not parse
\* made json.loads raise, the connection is closed, and nothing was sent.
C12_ClosedWithoutReply ==
  \E c \in Conns :
    /\ request[c].type = "malformed" /\ raised[c] = "parse"
    /\ closed[c] /\ nsent[c] = 0 /\ reply[c] = NoResponse

\* Calls of client_socket.send made by the handler of c: those that delivered
\* the reply and the one that raised.
SendCalls(c) == nsent[c] + (IF raised[c] = "send" THEN 1 ELSE 0)
WellFormed(c) == request[c].type \in {"producer", "consumer"}

C13_ExchangeInv ==
  \A c \in Conns :
    /\ nsent[c] <= 1 /\ SendCalls(c) <= 1
    /\ nsent[c] = 1 <=> reply[c] # NoResponse
    /\ closed[c] <=> hpc[c] = "done"
    /\ closed[c] /\ WellFormed(c) => SendCalls(c) = 1
    /\ closed[c] /\ WellFormed(c) /\ raised[c] = "" => nsent[c] = 1 /\ reply[c] = response[c]

LockSection == {"p_check", "p_put", "p_size", "p_unlock", "c_check", "c_get", "c_size", "c_unlock"}
\* The only places where a handler waits for another handler.
LockWait == {"p_lock", "c_lock"}

C14_NoQueueWaitInv ==
  \A c \in Conns :
    /\ hpc[c] = "p_put" => lock = c /\ QSize(srv_buffer) < srv_maxsize
    /\ hpc[c] = "c_get" => lock = c /\ QSize(srv_buffer) >= 1
    /\ hpc[c] \notin (LockWait \cup {"none", "done"}) => ENABLED HandlerStep(c)
    /\ hpc[c] \in LockWait /\ lock = 0 => ENABLED HandlerStep(c)

\* C14: a handler waits for nothing but the lock: every step other than the
\* lock acquisition can always be taken; inside the lock the blocking put is
\* reached only with size < C and the blocking get only with size >= 1; the
\* lock, once taken, is released; and every handler that received a producer
\* or consumer request gets past its reply.
C14_NeverBlocks ==
  /\ []C14_NoQueueWaitInv
  /\ \A c \in Conns : (lock = c) ~> (lock # c)
  /\ \A c \in Conns : (WellFormed(c) /\ hpc[c] = "recv") ~> (SendCalls(c) = 1)

\* A producer was refused at once by a full buffer and its connection is
\* closed, while the producer that filled the buffer has not been sent its
\* reply yet.
C14_Witness ==
  \E c, d \in Conns :
    /\ closed[c] /\ reply[c] = ErrFull
    /\ request[d].type = "producer" /\ response[d].status = "success" /\ hpc[d] = "send"

\* C17: the lock is held by a handler exactly while it is between entering
\* and leaving the `with self.lock` block (capacity check and queue
\* mutation); a handler that is receiving, sending or closing does not hold
\* it; so whenever a handler waits for the lock and no handler is inside the
\* block -- whatever the others are receiving or sending -- the lock is free.
C17_LockScope ==
  /\ \A c \in Conns : lock = c <=> hpc[c] \in LockSection
  /\ \A c \in Conns : hpc[c] \in {"recv", "send", "close", "done"} => lock # c
  /\ lock \in {0} \cup Conns
  /\ \A c \in Conns :
       hpc[c] \in LockWait /\ (\A d \in Conns \ {c} : hpc[d] \notin LockSection) => lock = 0

\* One client has not been sent its success reply yet, another request is
\* waiting to be read, and a third handler holds the lock.
C17_Witness ==
  \E c, d, e \in Conns :
    /\ hpc[c] = "send" /\ response[c].status = "success"
    /\ hpc[d] = "recv"
    /\ lock = e /\ hpc[e] \in LockSection

\* ------------------------------------------------------------ claim C28
\* Connections on which a producer was sent a success reply, and those on
\* which a consumer was.
AckedProducers == {c \in Conns : request[c].type = "producer" /\ reply[c].status = "success"}
ServedConsumers == {c \in Conns : request[c].type = "consumer" /\ reply[c].status = "success"}
\* The items producers were told were accepted and the items consumers were
\* handed, each in the order the server enqueued / dequeued them.
AckedSeq == SelectSeq(enq, LAMBDA x : \E c \in AckedProducers : request[c].item = x)
ReturnedSeq == SelectSeq(deq, LAMBDA x : \E c \in ServedConsumers : reply[c].item = x)
\* A consumer client counts the item of a success reply (Consumer.consume).
CountedBy(c) == IF c \in ServedConsumers THEN {reply[c].item} ELSE {}
NoTransportFailure == \A c \in Conns : raised[c] # "send"
\* Every accepted connection has been handled to the end.
Quiescent == \A c \in Conns : hpc[c] \in {"none", "done"}
\* The handler of c has changed the queue and not sent its reply yet.
ReplyPending(c) == hpc[c] \in {"p_size", "p_unlock", "c_size", "c_unlock", "send"}
NoDuplicates(q) == \A i, j \in 1..Len(q) : q[i] = q[j] => i = j

\* C28 as stated: with no transport failure, in every reachable state the
\* items producers were sent a success reply for are the items returned to
\* consumers in success replies followed by the buffer contents.
C28_Original ==
  NoTransportFailure => AckedSeq = ReturnedSeq \o srv_buffer

\* C28 as it holds: in every reachable state the items the server enqueued
\* are the items it dequeued followed by the buffer contents, no item twice;
\* an acknowledged item was enqueued; a returned item was dequeued, for that
\* consumer only; an enqueued item not acknowledged, or a dequeued item not
\* returned, belongs to a handler that has not sent its reply yet or whose
\* send failed; what a consumer client counts is an item dequeued for it;
\* and the equality of the claim holds once every handler has finished
\* without transport failure.
C28_Conservation ==
  /\ enq = deq \o srv_buffer /\ NoDuplicates(enq)
  /\ \A c \in AckedProducers : request[c].item \in Range(enq)
  /\ \A c \in ServedConsumers :
       /\ reply[c].item \in Range(deq) /\ CountedBy(c) \subseteq Range(deq)
       /\ \A d \in ServedConsumers \ {c} : reply[d].item # reply[c].item
  /\ \A i \in 1..Len(enq) :
       \/ enq[i] \in Range(AckedSeq)
       \/ \E c \in Conns : /\ request[c].type = "producer" /\ request[c].item = enq[i]
                           /\ ReplyPending(c) \/ raised[c] = "send"
  /\ \A i \in 1..Len(deq) :
       \/ deq[i] \in Range(ReturnedSeq)
       \/ \E c \in Conns : /\ request[c].type = "consumer" /\ response[c].item = deq[i]
                           /\ ReplyPending(c) \/ raised[c] = "send"
  /\ Quiescent /\ NoTransportFailure => C28_Original

\* A consumer has been handed an item whose producer has not been sent its
\* success reply yet, with no transport failure anywhere.
C28_Witness ==
  \E c, d \in Conns :
    /\ NoTransportFailure
    /\ c \in ServedConsumers /\ request[d].type = "producer"
    /\ reply[c].item = request[d].item /\ hpc[d] = "send"

\* ==================================================== remote producer client
\* What one call of Producer.produce meets: a reply with status 'success', a
\* reply with another status, or an exception (connection refused, no or
\* unparseable reply).
ProduceOutcomes == {"success", "error", "exception"}
\* Producer.produce(item): True for a success reply; False for an error reply
\* and, through `except Exception`, for any exception.
produce(outcome) == outcome = "success"

\* continuous_production(items, interval, max_retries) is called with a list
\* of n items and max_retries = N.
ProdStart(n, N) ==
  /\ prod.pc = "new"
  /\ prod' = [prod EXCEPT !.pc = "for", !.nitems = n, !.max_retries = N]
  /\ UNCHANGED <<localVars, netVars, cons, wrkVars>>

\* for item in items: retries = 0; success = False  (or the list is exhausted)
ProdFor ==
  /\ prod.pc = "for"
  /\ IF prod.idx < prod.nitems
       THEN prod' = [prod EXCEPT !.pc = "while", !.idx = @ + 1, !.retries = 0, !.success = FALSE]
       ELSE prod' = [prod EXCEPT !.pc = "done"]
  /\ UNCHANGED <<localVars, netVars, cons, wrkVars>>

\* while not success and retries < max_retries:  (else: if success: sleep; next item)
ProdWhile ==
  /\ prod.pc = "while"
  /\ IF ~prod.success /\ prod.retries < prod.max_retries
       THEN prod' = [prod EXCEPT !.pc = "produce"]
       ELSE prod' = [prod EXCEPT !.pc = "for"]
  /\ UNCHANGED <<localVars, netVars, cons, wrkVars>>

\* success = self.produce(item); if not success: retries += 1
ProdProduce_ExceptionNotCounted(outcome) ==
  /\ prod.pc = "produce"
  /\ prod' = [prod EXCEPT !.pc = "while",
                          !.success = produce(outcome),
                          !.retries = IF outcome = "error" THEN @ + 1 ELSE @,
                          !.attempts = Append(@, <<prod.idx, outcome>>)]
  /\ UNCHANGED <<localVars, netVars, cons, wrkVars>>

ProdProduce(outcome) ==
  /\ prod.pc = "produce"
  /\ prod' = [prod EXCEPT !.pc = "while",
                          !.success = produce(outcome),
                          !.retries = IF produce(outcome) THEN @ ELSE @ + 1,
                          !.attempts = Append(@, <<prod.idx, outcome>>)]
  /\ UNCHANGED <<localVars, netVars, cons, wrkVars>>

\* One statement of continuous_production once it has been called.
ProducerRun ==
  \/ ProdFor
  \/ ProdWhile
  \/ \E outcome \in ProduceOutcomes : ProdProduce(outcome)

NextProducer ==
  \/ \E n \in 0..MaxItems : \E N \in 0..MaxRetries : ProdStart(n, N)
  \/ ProducerRun

\* The client is one sequential thread; every produce call returns.
SpecProducer == Init /\ [][NextProducer]_vars /\ WF_vars(ProducerRun)

\* ------------------------------------------------------------ claim C15
\* Positions in the log of attempts made for item i, and the failed ones.
AttemptsFor(i) == {k \in 1..Len(prod.attempts) : prod.attempts[k][1] = i}
FailedFor(i) == {k \in AttemptsFor(i) : prod.attempts[k][2] # "success"}
\* The loop has left item i behind.
ItemLeft(i) ==
  \/ i < prod.idx
  \/ i = prod.idx /\ prod.pc \in {"for", "done"}

C15_RetryInv ==
  /\ \A i \in 1..prod.nitems :
       /\ Cardinality(AttemptsFor(i)) <= prod.max_retries
       /\ Cardinality(AttemptsFor(i) \ FailedFor(i)) <= 1
       /\ \A k \in AttemptsFor(i) \ FailedFor(i) : \A j \in AttemptsFor(i) : j <= k
       /\ ItemLeft(i) =>
            \/ AttemptsFor(i) # FailedFor(i)
            \/ Cardinality(FailedFor(i)) = prod.max_retries
       /\ i > prod.idx => AttemptsFor(i) = {}
  /\ \A k \in 1..Len(prod.attempts) :
       /\ prod.attempts[k][1] \in 1..prod.idx
       /\ k > 1 => prod.attempts[k - 1][1] <= prod.attempts[k][1]
  /\ prod.pc \in {"while", "produce"} => prod.retries = Cardinality(FailedFor(prod.idx))
  /\ prod.pc = "done" /\ (\A i \in 1..prod.nitems : AttemptsFor(i) = FailedFor(i)) =>
       Len(prod.attempts) = prod.max_retries * prod.nitems

\* C15: for each item the producer makes attempts until one succeeds or
\* exactly N attempts have failed -- an error reply and an exception counting
\* alike -- then goes on to the next item in list order; it never makes more
\* than N attempts for an item; when every attempt fails it has made exactly
\* N * len(items) attempts at the end; and continuous_production terminates.
C15_RetryExhaustion ==
  /\ []C15_RetryInv
  /\ (prod.pc # "new") ~> (prod.pc = "done")

\* The run has ended with N >= 2 and two items: the first was abandoned after
\* N failed attempts, among them an error reply and an exception; the second
\* succeeded on a retry.
C15_Witness ==
  /\ prod.pc = "done" /\ prod.max_retries >= 2 /\ prod.nitems >= 2
  /\ Cardinality(FailedFor(1)) = prod.max_retries /\ AttemptsFor(1) = FailedFor(1)
  /\ \E j, k \in FailedFor(1) : prod.attempts[j][2] = "error" /\ prod.attempts[k][2] = "exception"
  /\ FailedFor(2) # {} /\ AttemptsFor(2) # FailedFor(2)

\* ==================================================== remote consumer client
\* What one call of Consumer.consume meets: a success reply carrying an item,
\* a success reply whose item is JSON null (the item a producer request
\* without 'item', or with item None, put into the server's queue), a reply
\* with another status, or an exception.
ConsumeOutcomes == {"item", "null", "error", "exception"}
\* Consumer.consume(): response_data['item'] for a success reply, None for an
\* error reply and for any exception.
consume(outcome) == IF outcome = "item" THEN "item" ELSE "None"

\* continuous_consumption(max_items, interval, max_retries) is called.
ConsStart(n, N) ==
  /\ cons.pc = "new"
  /\ cons' = [cons EXCEPT !.pc = "outer", !.max_items = n, !.max_retries = N]
  /\ UNCHANGED <<localVars, netVars, prod, wrkVars>>

\* while items_consumed < max_items: retries = 0; item = None
ConsOuter ==
  /\ cons.pc = "outer"
  /\ IF cons.items_consumed < cons.max_items
       THEN cons' = [cons EXCEPT !.pc = "inner", !.retries = 0, !.item = "None"]
       ELSE cons' = [cons EXCEPT !.pc = "done"]
  /\ UNCHANGED <<localVars, netVars, prod, wrkVars>>

\* while item is None and retries < max_retries:
\* (else) if item is not None: items_consumed += 1 ... else: sleep
ConsInner ==
  /\ cons.pc = "inner"
  /\ IF cons.item = "None" /\ cons.retries < cons.max_retries
       THEN cons' = [cons EXCEPT !.pc = "consume"]
       ELSE cons' = [cons EXCEPT !.pc = "outer",
                                 !.items_consumed = IF cons.item # "None" THEN @ + 1 ELSE @,
                                 !.idle = @ \/ cons.item = "None"]
  /\ UNCHANGED <<localVars, netVars, prod, wrkVars>>

\* item = self.consume(); if item is None: retries += 1;
\* if retries < max_retries: sleep  else: return
ConsConsume(outcome) ==
  /\ cons.pc = "consume"
  /\ LET item == consume(outcome)
         retries == IF item = "None" THEN cons.retries + 1 ELSE cons.retries
     IN  cons' = [cons EXCEPT !.item = item,
                              !.retries = retries,
                              !.replies = Append(@, outcome),
                              !.pc = IF item = "None" /\ retries >= cons.max_retries
                                       THEN "returned" ELSE "inner"]
  /\ UNCHANGED <<localVars, netVars, prod, wrkVars>>

\* One statement of continuous_consumption once it has been called.
ConsumerRun ==
  \/ ConsOuter
  \/ ConsInner
  \/ \E outcome \in ConsumeOutcomes : ConsConsume(outcome)

NextConsumer ==
  \/ \E n \in 0..MaxItems : \E N \in 0..MaxRetries : ConsStart(n, N)
  \/ ConsumerRun

\* The client is one sequential thread; every consume call returns.
SpecConsumer == Init /\ [][NextConsumer]_vars /\ WF_vars(ConsumerRun)

\* ------------------------------------------------------------ claim C16
\* The number of replies at the end of the log that all satisfy Test.
Trailing(Test(_)) ==
  LET n == Len(cons.replies)
      Run == {k \in 0..n : \A j \in (n - k + 1)..n : Test(cons.replies[j])}
  IN  CHOOSE k \in Run : \A h \in Run : h <= k
\* A failed attempt: an error-status reply or a transport exception.
FailedAttempt(o) == o \in {"error", "exception"}
ReturnedNone(o) == consume(o) = "None"
TrailingFailures == Trailing(FailedAttempt)
TrailingNones == Trailing(ReturnedNone)

\* C16: with max_retries = N >= 1 the consumer stops the consumption loop as
\* soon as N consecutive consume attempts have failed (error-status reply or
\* exception) and not before: it has stopped only with the last N attempts
\* all failed, it makes no attempt after N consecutive failures, and its
\* failure counter equals the number of failures since the last successful
\* consume whenever it is about to make an attempt.
C16_ConsecutiveFailures ==
  cons.max_retries >= 1 =>
    /\ cons.pc = "returned" => TrailingFailures = cons.max_retries
    /\ cons.pc = "consume" => TrailingFailures < cons.max_retries
    /\ cons.pc = "consume" => cons.retries = TrailingFailures

\* What the code does instead, a reachable state: the consumer has stopped
\* although the last attempt was answered with success; the item was null,
\* consume() returned it as None and the loop counted a failure.
C16_StoppedAfterSuccess ==
  /\ cons.pc = "returned" /\ cons.max_retries >= 2
  /\ cons.replies[Len(cons.replies)] = "null"
  /\ TrailingFailures = 0

\* The rule the loop follows: it counts consume() calls that returned None,
\* stops at N of them in a row, and counts from zero again after a call that
\* returned an item.
ConsStopsAfterNoneReturns ==
  cons.max_retries >= 1 =>
    /\ cons.pc = "returned" => TrailingNones = cons.max_retries
    /\ cons.pc = "consume" => TrailingNones < cons.max_retries
    /\ cons.pc = "consume" => cons.retries = TrailingNones
    /\ cons.items_consumed <= cons.max_items

\* ------------------------------------------------------------ claim C27
\* continuous_consumption has returned: the outer loop ended, or `return`.
ConsReturned == cons.pc \in {"done", "returned"}

\* C27: for every max_items >= 0 and max_retries >= 0, whatever the replies,
\* continuous_consumption returns; it returns after exactly max_items counted
\* consumes or after max_retries consecutive failed ones; it never counts
\* more than max_items; and it never goes round its loop without issuing a
\* consume request.
C27_ConsumptionTerminates ==
  /\ [](cons.items_consumed <= cons.max_items)
  /\ [](cons.pc = "done" => cons.items_consumed = cons.max_items)
  /\ [](cons.pc = "returned" => TrailingNones = cons.max_retries)
  /\ [](~cons.idle)
  /\ (cons.pc # "new") ~> ConsReturned

\* What the code does instead, a reachable state: with max_retries = 0 and
\* max_items >= 1 the inner loop is skipped, item stays None, the else
\* branch sleeps, and the outer loop is entered again with nothing changed
\* and no consume request made.
C27_IdleRound ==
  /\ cons.max_retries = 0 /\ cons.max_items >= 1
  /\ cons.pc = "inner" /\ cons.idle
  /\ cons.replies = <<>> /\ cons.items_consumed = 0

\* ================================================== local worker threads
\* The threads that are given a worker to run.
Workers == DOMAIN wrk

\* Producer(buffer).start() / Consumer(buffer).start(): thread t runs run().
\* The threads are started one after the other, the producers first.
\* History: early records that the threshold was not yet reached at the start.
WorkerStart(t, role) ==
  /\ wrk[t].wpc = "new"
  /\ \A u \in Workers : u < t => wrk[u].wpc # "new"
  /\ role = "producer" => \A u \in Workers : u < t => wrk[u].role = "producer"
  /\ wrk' = [wrk EXCEPT ![t].role = role, ![t].wpc = "loop",
                         ![t].early = consumed_count < MAX_STUDENTS]
  /\ UNCHANGED <<localVars, netVars, cliVars>>

\* Producer.run: while self.running and student_num <= CONFIG['MAX_STUDENTS']:
\* _generate_and_save_student(student_num) gets as far as
\* self.buffer.insert(student_num, self.name); otherwise the loop is left.
ProducerLoop_IgnoresRunning(t) ==
  /\ wrk[t].role = "producer" /\ wrk[t].wpc = "loop"
  /\ IF wrk[t].student_num <= MAX_STUDENTS
       THEN /\ wrk' = [wrk EXCEPT ![t].wpc = "call", ![t].afterStop = stop_event]
            /\ pc' = [pc EXCEPT ![t] = "ins_empty"]
            /\ arg' = [arg EXCEPT ![t] = wrk[t].student_num]
            /\ ret' = [ret EXCEPT ![t] = RetNone]
            /\ eff' = [eff EXCEPT ![t] = ZeroEff]
            /\ sawFull' = [sawFull EXCEPT ![t] = is_full]
            /\ rmSince' = [rmSince EXCEPT ![t] = FALSE]
       ELSE /\ wrk' = [wrk EXCEPT ![t].wpc = "finished"]
            /\ UNCHANGED <<pc, arg, ret, eff, sawFull, rmSince>>
  /\ UNCHANGED <<bufVars, inserted, removed, ncalls, netVars, cliVars>>

ProducerLoop(t) ==
  /\ wrk[t].role = "producer" /\ wrk[t].wpc = "loop"
  /\ IF wrk[t].running /\ wrk[t].student_num <= MAX_STUDENTS
       THEN /\ wrk' = [wrk EXCEPT ![t].wpc = "call", ![t].afterStop = stop_event]
            /\ pc' = [pc EXCEPT ![t] = "ins_empty"]
            /\ arg' = [arg EXCEPT ![t] = wrk[t].student_num]
            /\ ret' = [ret EXCEPT ![t] = RetNone]
            /\ eff' = [eff EXCEPT ![t] = ZeroEff]
            /\ sawFull' = [sawFull EXCEPT ![t] = is_full]
            /\ rmSince' = [rmSince EXCEPT ![t] = FALSE]
       ELSE /\ wrk' = [wrk EXCEPT ![t].wpc = "finished"]
            /\ UNCHANGED <<pc, arg, ret, eff, sawFull, rmSince>>
  /\ UNCHANGED <<bufVars, inserted, removed, ncalls, netVars, cliVars>>

\* _generate_and_save_student: generating or saving the student raises; the
\* except returns False without calling insert, and run() breaks.
ProducerGenerateFails(t) ==
  /\ wrk[t].role = "producer" /\ wrk[t].wpc = "loop"
  /\ wrk[t].running /\ wrk[t].student_num <= MAX_STUDENTS
  /\ wrk' = [wrk EXCEPT ![t].wpc = "finished"]
  /\ UNCHANGED <<localVars, netVars, cliVars>>

\* History: the calls that have returned to run() in thread t after its
\* running flag was cleared, this return included.
ReturnsSince(t) == IF wrk[t].running THEN wrk[t].since ELSE wrk[t].since + 1

\* insert has returned: True -> student_num += 1 (sleep, loop); False -> break.
ProducerReturn_RetriesOnFalse(t) ==
  /\ wrk[t].role = "producer" /\ wrk[t].wpc = "call" /\ pc[t] = "idle"
  /\ IF ret[t] = RetTrue
       THEN wrk' = [wrk EXCEPT ![t].wpc = "loop", ![t].student_num = @ + 1,
                               ![t].keys = Append(@, arg[t]),
                               ![t].since = ReturnsSince(t)]
       ELSE wrk' = [wrk EXCEPT ![t].wpc = "loop", ![t].failed = TRUE,
                               ![t].since = ReturnsSince(t)]
  /\ UNCHANGED <<localVars, netVars, cliVars>>

ProducerReturn(t) ==
  /\ wrk[t].role = "producer" /\ wrk[t].wpc = "call" /\ pc[t] = "idle"
  /\ IF ret[t] = RetTrue
       THEN wrk' = [wrk EXCEPT ![t].wpc = "loop", ![t].student_num = @ + 1,
                               ![t].keys = Append(@, arg[t]),
                               ![t].since = ReturnsSince(t)]
       ELSE wrk' = [wrk EXCEPT ![t].wpc = "finished", ![t].failed = TRUE,
                               ![t].since = ReturnsSince(t)]
  /\ UNCHANGED <<localVars, netVars, cliVars>>

\* Consumer.run: while self.running: student_num = self.buffer.remove(self.name)
ConsumerLoop(t) ==
  /\ wrk[t].role = "consumer" /\ wrk[t].wpc = "loop"
  /\ IF wrk[t].running
       THEN /\ wrk' = [wrk EXCEPT ![t].wpc = "call", ![t].afterStop = stop_event]
            /\ pc' = [pc EXCEPT ![t] = "rem_full"]
            /\ arg' = [arg EXCEPT ![t] = NoItem]
            /\ ret' = [ret EXCEPT ![t] = RetNone]
            /\ eff' = [eff EXCEPT ![t] = ZeroEff]
            /\ sawFull' = [sawFull EXCEPT ![t] = FALSE]
            /\ rmSince' = [rmSince EXCEPT ![t] = FALSE]
       ELSE /\ wrk' = [wrk EXCEPT ![t].wpc = "finished"]
            /\ UNCHANGED <<pc, arg, ret, eff, sawFull, rmSince>>
  /\ UNCHANGED <<bufVars, inserted, removed, ncalls, netVars, cliVars>>

\* remove has returned: an item -> _process_student (its failure is only
\* logged), sleep, go on to the threshold check; None -> break.
ConsumerReturn(t) ==
  /\ wrk[t].role = "consumer" /\ wrk[t].wpc = "call" /\ pc[t] = "idle"
  /\ IF ret[t].kind = "item"
       THEN wrk' = [wrk EXCEPT ![t].wpc = "chk_lock", ![t].student_num = ret[t].val,
                               ![t].since = ReturnsSince(t)]
       ELSE wrk' = [wrk EXCEPT ![t].wpc = "finished", ![t].failed = TRUE,
                               ![t].since = ReturnsSince(t)]
  /\ UNCHANGED <<localVars, netVars, cliVars>>

\* with self.buffer._lock: (enter)
ConsumerCheckLock_NoLock(t) ==
  /\ wrk[t].role = "consumer" /\ wrk[t].wpc = "chk_lock"
  /\ wrk' = [wrk EXCEPT ![t].wpc = "chk_read"]
  /\ UNCHANGED <<localVars, netVars, cliVars>>

ConsumerCheckLock(t) ==
  /\ wrk[t].role = "consumer" /\ wrk[t].wpc = "chk_lock"
  /\ cnt_lock = 0
  /\ cnt_lock' = t
  /\ wrk' = [wrk EXCEPT ![t].wpc = "chk_read"]
  /\ UNCHANGED <<buffer, maxsize, mutex, empty, full, produced_count, consumed_count, stop_event>>
  /\ UNCHANGED <<thrVars, histVars, netVars, cliVars>>

\* if self.buffer.consumed_count >= CONFIG['MAX_STUDENTS']: break
\* with self.buffer._lock: (leave)
ConsumerCheckRead_NoBreak(t) ==
  /\ wrk[t].role = "consumer" /\ wrk[t].wpc = "chk_read"
  /\ cnt_lock' = 0
  /\ wrk' = [wrk EXCEPT ![t].wpc = "loop"]
  /\ UNCHANGED <<buffer, maxsize, mutex, empty, full, produced_count, consumed_count, stop_event>>
  /\ UNCHANGED <<thrVars, histVars, netVars, cliVars>>

ConsumerCheckRead(t) ==
  /\ wrk[t].role = "consumer" /\ wrk[t].wpc = "chk_read"
  /\ cnt_lock' = 0
  /\ wrk' = [wrk EXCEPT ![t].wpc = IF consumed_count >= MAX_STUDENTS THEN "finished" ELSE "loop"]
  /\ UNCHANGED <<buffer, maxsize, mutex, empty, full, produced_count, consumed_count, stop_event>>
  /\ UNCHANGED <<thrVars, histVars, netVars, cliVars>>

\* run_multiple_producers_consumers, once every thread has been started:
\* for p in producers: p.running = False
AllStarted == \A t \in Workers : wrk[t].wpc # "new"
Producers == {t \in Workers : wrk[t].role = "producer"}
Consumers == {t \in Workers : wrk[t].role = "consumer"}

StopProducers ==
  /\ AllStarted
  /\ \E t \in Producers : wrk[t].running
  /\ wrk' = [t \in Workers |->
               IF t \in Producers THEN [wrk[t] EXCEPT !.running = FALSE] ELSE wrk[t]]
  /\ UNCHANGED <<localVars, netVars, cliVars>>

\* for p in producers: p.join() ... for c in consumers: c.running = False; c.join()
StopConsumer(t) ==
  /\ AllStarted
  /\ \A p \in Producers : ~wrk[p].running /\ wrk[p].wpc = "finished"
  /\ \A c \in Consumers : c < t => ~wrk[c].running /\ wrk[c].wpc = "finished"
  /\ t \in Consumers /\ wrk[t].running
  /\ wrk' = [wrk EXCEPT ![t].running = FALSE]
  /\ UNCHANGED <<localVars, netVars, cliVars>>

\* One statement of run() in worker thread t, outside insert / remove.
WorkerStep(t) ==
  \/ ProducerLoop(t)
  \/ ProducerGenerateFails(t)
  \/ ProducerReturn(t)
  \/ ConsumerLoop(t)
  \/ ConsumerReturn(t)
  \/ ConsumerCheckLock(t)
  \/ ConsumerCheckRead(t)

NextWork ==
  \/ \E t \in Threads, role \in {"producer", "consumer"} : WorkerStart(t, role)
  \/ \E t \in Threads : WorkerStep(t)
  \/ StopProducers
  \/ \E t \in Threads : StopConsumer(t)
  \/ \E t \in Threads : InsertStep(t)
  \/ \E t \in Threads : RemoveStep(t)

SpecWork == Init /\ [][NextWork]_vars

\* ------------------------------------------------------------ claim C19
\* Thread t is between entering and leaving a `with self._lock` block.
UpdatingCounter(t) == pc[t] \in {"ins_count", "rem_count"}
ReadingCounter(t) == wrk[t].wpc = "chk_read"

C19_LockInv ==
  /\ cnt_lock \in {0} \cup Threads
  /\ \A t \in Threads :
       /\ UpdatingCounter(t) => cnt_lock = t /\ InCS(t) /\ mutex = 0
       /\ ReadingCounter(t) => cnt_lock = t
       /\ cnt_lock = t => UpdatingCounter(t) \/ ReadingCounter(t)
       /\ ReadingCounter(t) => \A u \in Threads \ {t} : ~UpdatingCounter(u) /\ ~ReadingCounter(u)

\* C19: every step that changes the buffer contents, produced_count or
\* consumed_count is taken by a thread that holds the mutex, and a counter
\* changes only in a thread that also holds the counter lock; the consumer
\* reads consumed_count for its termination decision while it holds that same
\* counter lock, so no thread is inside a counter update while it reads, and
\* the decision it takes is the one the value calls for.
C19_CounterLockDiscipline ==
  /\ []C19_LockInv
  /\ [][buffer' # buffer \/ produced_count' # produced_count \/ consumed_count' # consumed_count =>
          \E t \in Threads :
            /\ InCS(t) /\ mutex = 0 /\ pc'[t] # pc[t]
            /\ buffer' = buffer => cnt_lock = t]_vars
  /\ [][\A t \in Threads :
          ReadingCounter(t) /\ wrk'[t].wpc # wrk[t].wpc =>
            /\ cnt_lock = t /\ cnt_lock' = 0
            /\ consumed_count' = consumed_count
            /\ wrk'[t].wpc = "finished" <=> consumed_count >= MAX_STUDENTS]_vars

\* A consumer is reading consumed_count under the counter lock while a
\* producer inside the mutex waits for that lock to count its insert.
C19_Witness ==
  \E t, u \in Threads :
    /\ ReadingCounter(t) /\ cnt_lock = t
    /\ pc[u] = "ins_cntlock" /\ InCS(u)

\* ------------------------------------------------------------ claim C20
C20_WorkerInv ==
  \A t \in Threads :
    /\ wrk[t].role = "producer" =>
         /\ Len(wrk[t].keys) <= MAX_STUDENTS
         /\ \A i \in 1..Len(wrk[t].keys) : wrk[t].keys[i] = i
         /\ wrk[t].student_num = Len(wrk[t].keys) + 1
         /\ wrk[t].wpc = "call" => arg[t] = wrk[t].student_num
    /\ wrk[t].failed => wrk[t].wpc = "finished"
    /\ wrk[t].wpc \in {"new", "loop", "finished"} => pc[t] = "idle"
    /\ produced_count <= MAX_STUDENTS * Cardinality(Producers)

\* C20: a producer thread whose insert returned False, and a consumer thread
\* whose remove returned None, has left its loop: it is finished, stays
\* finished and starts no further call; the keys a producer has inserted
\* successfully are 1, 2, ..., k in that order, with k <= MAX_STUDENTS.
C20_NoRetry ==
  /\ []C20_WorkerInv
  /\ [][\A t \in Threads :
          /\ wrk[t].wpc = "finished" => wrk'[t].wpc = "finished" /\ pc'[t] = "idle"
          /\ wrk[t].wpc = "call" /\ pc[t] = "idle" /\ ret[t].kind \in {"False", "None"}
               => wrk'[t].wpc \in {"call", "finished"} /\ pc'[t] = "idle"]_vars

\* A producer has finished after an insert that returned False, with at
\* least one key inserted before it, and a consumer has finished after a
\* remove that returned None.
C20_Witness ==
  \E p, c \in Threads :
    /\ wrk[p].role = "producer" /\ wrk[p].failed /\ Len(wrk[p].keys) >= 1
    /\ ret[p].kind = "False"
    /\ wrk[c].role = "consumer" /\ wrk[c].failed /\ ret[c].kind = "None"

\* ========================================================= the threads of main()
\* producer = Producer(buffer, "Producer-1"); consumer = Consumer(buffer, "Consumer-1")
MainThreads == {1, 2}

\* buffer = SharedBuffer(CONFIG['BUFFER_SIZE']), for each of the small sizes.
InitMain == \E size \in LiveCap..Cap : InitFor(MainThreads, size, Cap)

\* SharedBuffer.stop(): self._stop_event.set()
BufferStop ==
  /\ stop_event' = TRUE
  /\ UNCHANGED <<buffer, maxsize, mutex, empty, full, produced_count, consumed_count, cnt_lock>>
  /\ UNCHANGED <<thrVars, histVars, restVars>>

\* One statement of thread t, in run() or inside insert / remove.
MainStep(t) == WorkerStep(t) \/ ThreadStep(t)

\* producer.start(); consumer.start(); the two threads run.  Their running
\* flags are cleared the way run_multiple_producers_consumers clears them, and
\* stop() may be called on the buffer at any time.
NextMain ==
  \/ WorkerStart(1, "producer")
  \/ WorkerStart(2, "consumer")
  \/ \E t \in MainThreads : WorkerStep(t)
  \/ \E t \in MainThreads : InsertStep(t)
  \/ \E t \in MainThreads : RemoveStep(t)
  \/ StopProducers
  \/ \E t \in MainThreads : StopConsumer(t)
  \/ BufferStop

\* A started thread is scheduled.  Its waits are acquires with a timeout and
\* `with self._lock`, which is held for one statement.
FairnessMain == \A t \in MainThreads : WF_vars(MainStep(t))

SpecMain == InitMain /\ [][NextMain]_vars /\ FairnessMain

\* ------------------------------------------------------------ claim C22
\* The running flag of thread t has been cleared.
Cancelled(t) == ~wrk[t].running

\* C22: clearing a worker's running flag changes nothing else, so a call in
\* flight is where it was and goes on to return a value of its own; after the
\* flag is cleared at most one insert (producer) or remove (consumer) returns
\* to the worker; a worker that evaluates its loop condition with the flag
\* cleared leaves the loop without starting a call, and starts none later;
\* and every worker whose flag is cleared terminates.
C22_CancellationAtLoopBoundary ==
  /\ [][\A t \in MainThreads :
          ~Cancelled(t) /\ Cancelled(t)' =>
            /\ UNCHANGED <<bufVars, thrVars, histVars>>
            /\ wrk'[t] = [wrk[t] EXCEPT !.running = FALSE]]_vars
  /\ [](\A t \in MainThreads : wrk[t].since <= 1)
  /\ [][\A t \in MainThreads :
          /\ Cancelled(t) /\ wrk[t].wpc = "loop" /\ wrk'[t] # wrk[t]
               => wrk'[t].wpc = "finished" /\ pc'[t] = "idle"
          /\ wrk[t].wpc = "finished" => wrk'[t].wpc = "finished" /\ pc'[t] = "idle"]_vars
  /\ \A t \in MainThreads :
       (Cancelled(t) /\ pc[t] # "idle") ~> (pc[t] = "idle" /\ ret[t] # RetNone)
  /\ \A t \in MainThreads : Cancelled(t) ~> (wrk[t].wpc = "finished")

\* Both flags were cleared while a call was in flight: the producer's insert
\* then returned True and the consumer's remove an item, one call each, and
\* both threads left their loops with MAX_STUDENTS not reached.
C22_Witness ==
  \E p, c \in MainThreads :
    /\ wrk[p].role = "producer" /\ Cancelled(p) /\ wrk[p].since = 1
    /\ wrk[p].wpc = "finished" /\ ret[p] = RetTrue
    /\ wrk[p].student_num <= MAX_STUDENTS
    /\ wrk[c].role = "consumer" /\ Cancelled(c) /\ wrk[c].since = 1
    /\ wrk[c].wpc = "finished" /\ ret[c].kind = "item"
    /\ consumed_count < MAX_STUDENTS

\* ------------------------------------------------------------ claim C23
\* C23: once stop() has been called on the buffer, no insert or remove call
\* started afterwards adds an item to the buffer or takes one from it, and the
\* worker threads using the buffer leave their loops.
C23_StopStopsOperations ==
  /\ [](\A t \in MainThreads : wrk[t].afterStop => eff[t].b = 0)
  /\ stop_event ~> (\A t \in MainThreads : wrk[t].wpc \in {"new", "finished"})

\* What the code does instead, a reachable state: stop() has set the event,
\* which nothing reads; the producer then went round its loop, called insert,
\* the call returned True and its item is in the buffer.
C23_InsertAfterStop ==
  \E t \in MainThreads :
    /\ stop_event /\ wrk[t].afterStop
    /\ wrk[t].role = "producer" /\ wrk[t].wpc = "loop"
    /\ ret[t] = RetTrue /\ eff[t].b = 1
    /\ arg[t] \in Range(buffer)

\* ================================ the threads of run_multiple_producers_consumers
\* producers = [Producer(buffer, ...) for i in range(2)]
\* consumers = [Consumer(buffer, ...) for i in range(2)]
NProducers == 2
NConsumers == 2
Crowd == 1..(NProducers + NConsumers)

\* buffer = SharedBuffer(CONFIG['BUFFER_SIZE']), shared by the four threads:
\* threads 1..NProducers are the producers, the others the consumers.
InitCrowd == InitFor(Crowd, Cap, Cap)

\* With four threads the calls are taken one call to a step.  A call takes
\* effect inside its mutex section, where no other call changes the buffer or
\* a counter (C5, C19), so the step is that section; the acquires before it
\* time out when the permit or the mutex is not there, which at this grain is
\* when the count is zero or another call is under way.  The per-call history
\* flags sawFull and rmSince belong to the statement grain and are left
\* cleared here.
Overlapped(t) == \E u \in DOMAIN pc \ {t} : pc[u] # "idle"

\* SharedBuffer.insert(item, producer_name), from the first acquire to return.
insert(t) ==
  /\ pc[t] = "ins_empty"
  /\ \/ \* empty.acquire and mutex.acquire succeed: put, produced_count += 1,
        \* mutex.release, full.release, return True
        /\ empty > 0 /\ mutex > 0 /\ cnt_lock = 0
        /\ ~QFull(buffer, maxsize)
        /\ empty' = empty - 1
        /\ buffer' = Append(buffer, arg[t])
        /\ inserted' = Append(inserted, arg[t])
        /\ produced_count' = produced_count + 1
        /\ full' = full + 1
        /\ ret' = [ret EXCEPT ![t] = RetTrue]
     \/ \* empty.acquire times out: return False
        /\ empty = 0 \/ Overlapped(t)
        /\ ret' = [ret EXCEPT ![t] = RetFalse("slot")]
        /\ UNCHANGED <<buffer, inserted, empty, full, produced_count>>
     \/ \* mutex.acquire times out: empty.release, return False
        /\ Overlapped(t)
        /\ ret' = [ret EXCEPT ![t] = RetFalse("mutex")]
        /\ UNCHANGED <<buffer, inserted, empty, full, produced_count>>
  /\ pc' = [pc EXCEPT ![t] = "idle"]
  /\ UNCHANGED <<maxsize, mutex, consumed_count, cnt_lock, stop_event>>
  /\ sawFull' = [sawFull EXCEPT ![t] = FALSE]
  /\ UNCHANGED <<arg, removed, ncalls, rmSince, restVars>>
  /\ Track(t)

\* SharedBuffer.remove(consumer_name), from the first acquire to return.
remove(t) ==
  /\ pc[t] = "rem_full"
  /\ \/ \* full.acquire and mutex.acquire succeed: get, consumed_count += 1,
        \* mutex.release, empty.release, return item
        /\ full > 0 /\ mutex > 0 /\ cnt_lock = 0
        /\ ~QEmpty(buffer)
        /\ full' = full - 1
        /\ arg' = [arg EXCEPT ![t] = Head(buffer)]
        /\ removed' = Append(removed, Head(buffer))
        /\ buffer' = Tail(buffer)
        /\ consumed_count' = consumed_count + 1
        /\ empty' = empty + 1
        /\ ret' = [ret EXCEPT ![t] = RetItem(Head(buffer))]
     \/ \* full.acquire times out: return None
        /\ full = 0 \/ Overlapped(t)
        /\ ret' = [ret EXCEPT ![t] = RetNoneItem("slot")]
        /\ UNCHANGED <<buffer, removed, arg, empty, full, consumed_count>>
     \/ \* mutex.acquire times out: full.release, return None
        /\ Overlapped(t)
        /\ ret' = [ret EXCEPT ![t] = RetNoneItem("mutex")]
        /\ UNCHANGED <<buffer, removed, arg, empty, full, consumed_count>>
  /\ pc' = [pc EXCEPT ![t] = "idle"]
  /\ UNCHANGED <<maxsize, mutex, produced_count, cnt_lock, stop_event>>
  /\ UNCHANGED <<inserted, ncalls, sawFull, rmSince, restVars>>
  /\ Track(t)

\* One step of thread t: a statement of run() or a whole call.
CrowdStep(t) == WorkerStep(t) \/ insert(t) \/ remove(t)

\* for p in producers: p.start(); for c in consumers: c.start(); the threads
\* run while the main thread is in time.sleep(8), their running flags set.
NextCrowd ==
  \/ \E t \in Crowd : WorkerStart(t, IF t <= NProducers THEN "producer" ELSE "consumer")
  \/ \E t \in Crowd : WorkerStep(t)
  \/ \E t \in Crowd : insert(t)
  \/ \E t \in Crowd : remove(t)

\* As in FairnessMain, a started thread is scheduled.
FairnessCrowd == \A t \in Crowd : WF_vars(CrowdStep(t))

SpecCrowd == InitCrowd /\ [][NextCrowd]_vars /\ FairnessCrowd

\* ------------------------------------------------------------ claim C21
\* C21: once consumed_count >= MAX_STUDENTS holds, no consumer thread starts
\* a new remove call, and every consumer thread that was started leaves its
\* loop, however many producers and consumers run.
C21_ThresholdStop ==
  /\ [][\A t \in Crowd :
          consumed_count >= MAX_STUDENTS /\ wrk[t].role = "consumer"
            => ~(pc[t] = "idle" /\ pc'[t] = "rem_full")]_vars
  /\ \A t \in Crowd : (wrk[t].role = "consumer") ~> (wrk[t].wpc = "finished")

\* What the code does instead, a reachable state: consumed_count has reached
\* the threshold through one consumer while another, whose last check read a
\* smaller count, is at the top of its loop with its flag set; its next
\* statement is the remove call, and an item is there for it to take.
C21_LoopsPastThreshold ==
  \E t \in Crowd :
    /\ wrk[t].role = "consumer" /\ wrk[t].wpc = "loop" /\ wrk[t].running
    /\ ret[t].kind = "item"
    /\ consumed_count >= MAX_STUDENTS
    /\ ~QEmpty(buffer)

\* ------------------------------------------------------------ claim C26
\* The consumers that were started before consumed_count reached MAX_STUDENTS.
EarlyConsumers == {t \in Consumers : wrk[t].early}

C26_Bound ==
  /\ Consumers = {} => consumed_count = 0
  /\ Consumers # {} => consumed_count <= MAX_STUDENTS + Cardinality(Consumers) - 1
  /\ Consumers = EarlyConsumers /\ Cardinality(EarlyConsumers) = 1
       => consumed_count <= MAX_STUDENTS

\* C26: with k consumer threads, all started before consumed_count reached
\* MAX_STUDENTS, consumed_count never exceeds MAX_STUDENTS + k - 1, and with
\* one consumer never MAX_STUDENTS; a consumer goes back to the top of its
\* loop only from a threshold check that read consumed_count < MAX_STUDENTS
\* under the counter lock, and it makes that check after every remove that
\* returned an item.
C26_BoundedOverConsumption ==
  /\ []C26_Bound
  /\ [][\A t \in Crowd :
          /\ wrk[t].wpc = "chk_read" /\ wrk'[t].wpc = "loop"
               => consumed_count < MAX_STUDENTS /\ cnt_lock = t
          /\ wrk[t].role = "consumer" /\ wrk[t].wpc = "call" /\ ret[t].kind = "item"
               => wrk'[t].wpc \in {"call", "chk_lock"}]_vars

\* Two consumers, both started before the threshold was reached, have taken
\* MAX_STUDENTS + 1 items between them and have both left their loops.
C26_Witness ==
  /\ Cardinality(Consumers) = NConsumers /\ Consumers = EarlyConsumers
  /\ consumed_count = MAX_STUDENTS + NConsumers - 1
  /\ \A t \in Consumers : wrk[t].wpc = "finished" /\ ret[t].kind = "item"

====
